---- MODULE Spec2Model ----
(***************************************************************************)
(* Verification model of sierra-leone-locations: the LocationService      *)
(* cache and initialization, the SecurityValidator rate limiter and input *)
(* sanitizer, the normalize helper and the SearchService index.           *)
(***************************************************************************)
EXTENDS Integers, Sequences, FiniteSets, TLC

VARIABLES
    \* ---- LocationService (src/src/core/LocationService.ts)
    initialized,        \* private initialized = false
    rawData,            \* private rawData: LocationRecord[]
    cache,              \* keys of the Map `cache`
    cacheAccessTimes,   \* Map key -> time, kept as a sequence in insertion order
    now,                \* last value returned by Date.now()
    lsOp,               \* the last LocationService operation
    lsOutcome,          \* its outcome: "value", "error" or "none"
    everSet,            \* history: keys set since the cache was last empty
    lastAccess,         \* history: last access (set or hit) time of each key
    cacheValues,        \* values of the Map `cache`, for the keys set by a call
                        \* whose returned value the model computes
    lsQuery,            \* the last such call: operation and arguments
    lsResult,           \* the value it returned
    \* ---- SecurityValidator.checkRateLimit (src/src/utils/security.ts)
    rateLimit,          \* Map identifier -> timestamps (SearchService.rateLimit)
    rlNow,              \* last value returned by Date.now()
    rlMax,              \* maxRequests of the limiter under test
    rlLog,              \* history: per client, the calls made: time, class, verdict
    \* ---- normalize (src/unnamed/part_000)
    nzIn,               \* the argument str
    nzOut,              \* the values returned so far: <<normalize(str), ...>>
    csIn,               \* the arguments <<str1, str2>> of calculateSimilarity
    csOut,              \* the scores returned so far, for (str1, str2),
                        \* (str2, str1) and (str1, str1)
    \* ---- SecurityValidator patterns (src/src/utils/security.ts)
    lastIndex,          \* lastIndex of each shared /g pattern object
    saInput,            \* argument of the last sanitize call
    saOutcome,          \* its outcome: "value" or "error"; "none" before any call
    \* ---- SearchService (src/unnamed/part_003)
    searchIndex,        \* Map key -> SearchIndexEntry[], in insertion order
    sxOp,               \* the last SearchService operation
    sxQuery,            \* its query argument
    sxOptions,          \* its options (search) or limit (autocomplete)
    sxOutcome,          \* "value", "error", "rateLimited" or "none"
    sxResult,           \* the value it returned
    \* ---- ValidationService (src/unnamed/part_002)
    vsInitialized,      \* private initialized = false
    vsOp,               \* the last ValidationService call: operation and arguments
    vsResult            \* the ValidationResult it returned

lsVars == <<initialized, rawData, cache, cacheAccessTimes, now, lsOp, lsOutcome,
            everSet, lastAccess, cacheValues, lsQuery, lsResult>>
rlVars == <<rateLimit, rlNow, rlMax, rlLog>>
nzVars == <<nzIn, nzOut, csIn, csOut>>
saVars == <<lastIndex, saInput, saOutcome>>
sxVars == <<searchIndex, sxOp, sxQuery, sxOptions, sxOutcome, sxResult>>

vsVars == <<vsInitialized, vsOp, vsResult>>

vars == <<lsVars, rlVars, nzVars, saVars, sxVars, vsVars>>

\* What the operations of one component leave alone
lsOthers == <<rlVars, nzVars, saVars, sxVars, vsVars>>
rlOthers == <<lsVars, nzVars, saVars, sxVars, vsVars>>
nzOthers == <<lsVars, rlVars, saVars, sxVars, vsVars>>
saOthers == <<lsVars, rlVars, nzVars, sxVars, vsVars>>

----------------------------------------------------------------------------
(* Bounds *)

\* maxCacheSize is 1000 in the source; the model keeps the code's comparisons
\* and runs them with a small capacity.
maxCacheSize == 2
\* largest clock reading
MaxClock == 2

\* Cache keys built by the accessors; the values stored under NullKeys are
\* null (findPlace / getLocationHierarchy of an unknown name).
CacheKeys == {"provinces", "statistics", "query-{}", "place-zz", "hierarchy-zz"}
NullKeys == {"place-zz", "hierarchy-zz"}

NoTime == 0 - 1

----------------------------------------------------------------------------
(* Strings: a string is the sequence of its characters *)

\* longest string handed to a pure function
MaxStrLen == 3
MaxSimLen == 3

LowerLetters == {"a", "b"}
\* The other letters of the word "section", which getTowns writes into its
\* cache keys; they occur in arguments only
KeyLetters == {"s", "e", "c", "t", "i", "o", "n"}
UpperLetters == {"A", "B"}
Chars == LowerLetters \cup UpperLetters \cup {" ", "-", "!", ".", ";", "#"}

\* The strings over chars of length at most n
RECURSIVE StringsOver(_, _)
StringsOver(chars, n) ==
    IF n = 0 THEN {<<>>}
    ELSE LET shorter == StringsOver(chars, n - 1) IN
         shorter \cup {Append(s, c) : s \in {x \in shorter : Len(x) = n - 1}, c \in chars}

\* \s
IsSpace(c) == c = " "
\* \w
IsWord(c) == c \in LowerLetters \cup UpperLetters \cup KeyLetters

LowerChar(c) == CASE c = "A" -> "a" [] c = "B" -> "b" [] OTHER -> c

\* String.prototype.toLowerCase
toLowerCase(s) == [i \in 1..Len(s) |-> LowerChar(s[i])]

RECURSIVE trimStart(_)
trimStart(s) ==
    IF s # <<>> /\ IsSpace(Head(s)) THEN trimStart(Tail(s)) ELSE s

RECURSIVE trimEnd(_)
trimEnd(s) ==
    IF s # <<>> /\ IsSpace(s[Len(s)]) THEN trimEnd(SubSeq(s, 1, Len(s) - 1)) ELSE s

\* String.prototype.trim
trim(s) == trimEnd(trimStart(s))

\* .replace(/\s+/g, ' ')
RECURSIVE collapseWhitespace(_)
collapseWhitespace(s) ==
    IF s = <<>> THEN <<>>
    ELSE IF IsSpace(Head(s))
         THEN <<" ">> \o collapseWhitespace(trimStart(s))
         ELSE <<Head(s)>> \o collapseWhitespace(Tail(s))

\* .replace(/[^\w\s-]/g, '')
stripPunctuation(s) == SelectSeq(s, LAMBDA c : IsWord(c) \/ IsSpace(c) \/ c = "-")

\* normalize(str)
normalize(str) ==
    IF str = <<>> THEN <<>>
    ELSE stripPunctuation(collapseWhitespace(trim(toLowerCase(str))))

NzFields ==
    /\ nzIn = <<>>
    /\ nzOut = <<>>
    /\ csIn = <<>>
    /\ csOut = <<>>

\* normalize applied to the argument, then to its own result
Normalize ==
    /\ Len(nzOut) = 0
    /\ nzOut' = <<normalize(nzIn)>>
    /\ UNCHANGED <<nzIn, csIn, csOut, nzOthers>>

NormalizeAgain ==
    /\ Len(nzOut) = 1
    /\ nzOut' = Append(nzOut, normalize(nzOut[1]))
    /\ UNCHANGED <<nzIn, csIn, csOut, nzOthers>>

----------------------------------------------------------------------------
(* String helpers of the search code *)

\* String.prototype.includes
includes(s, sub) ==
    \E i \in 0..(Len(s) - Len(sub)) : SubSeq(s, i + 1, i + Len(sub)) = sub

\* String.prototype.startsWith
startsWith(s, prefix) ==
    Len(prefix) <= Len(s) /\ SubSeq(s, 1, Len(prefix)) = prefix

\* s.split(' '): the pieces between single spaces, empty pieces included
RECURSIVE splitFrom(_, _)
splitFrom(s, piece) ==
    IF s = <<>> THEN <<piece>>
    ELSE IF Head(s) = " " THEN <<piece>> \o splitFrom(Tail(s), <<>>)
    ELSE splitFrom(Tail(s), Append(piece, Head(s)))

split(s) == splitFrom(s, <<>>)

Vowels == {"a", "e", "i", "o", "u"}

\* .replace(/(.)\1+/g, '$1'): a run of one repeated character becomes one
RECURSIVE collapseRepeats(_)
collapseRepeats(s) ==
    IF Len(s) < 2 THEN s
    ELSE IF s[1] = s[2] THEN collapseRepeats(Tail(s))
    ELSE <<Head(s)>> \o collapseRepeats(Tail(s))

\* getPhoneticKey(text)
getPhoneticKey(text) ==
    LET k == collapseRepeats(SelectSeq(text, LAMBDA c : c \notin Vowels)) IN
    SubSeq(k, 1, IF Len(k) < 6 THEN Len(k) ELSE 6)

Min3(a, b, c) ==
    IF a <= b /\ a <= c THEN a ELSE IF b <= c THEN b ELSE c

\* One row matrix[i] of the Levenshtein matrix, built left to right from the
\* row above; row[j + 1] is matrix[i][j].
RECURSIVE LevRow(_, _, _, _, _)
LevRow(s1, s2, i, above, row) ==
    IF Len(row) = Len(s1) + 1 THEN row
    ELSE LET j == Len(row) IN
         LevRow(s1, s2, i, above,
                Append(row,
                       IF s2[i] = s1[j] THEN above[j]
                       ELSE Min3(above[j] + 1, row[j] + 1, above[j + 1] + 1)))

RECURSIVE LevRows(_, _, _, _)
LevRows(s1, s2, i, above) ==
    IF i > Len(s2) THEN above[Len(s1) + 1]
    ELSE LevRows(s1, s2, i + 1, LevRow(s1, s2, i, above, <<i>>))

\* matrix[s2.length][s1.length]
Levenshtein(s1, s2) == LevRows(s1, s2, 1, [j \in 1..(Len(s1) + 1) |-> j - 1])

\* A score is the fraction <<numerator, denominator>>
ScoreGeq(a, b) == a[1] * b[2] >= b[1] * a[2]
ScoreGt(a, b) == a[1] * b[2] > b[1] * a[2]
ScoreEq(a, b) == a[1] * b[2] = b[1] * a[2]
ScoreTimes(a, b) == <<a[1] * b[1], a[2] * b[2]>>
One == <<1, 1>>
Contains == <<8, 10>>

\* calculateSimilarity testing the containment one way only
calculateSimilarityOneWay(str1, str2) ==
    LET s1 == normalize(str1)
        s2 == normalize(str2)
    IN
    IF s1 = s2 THEN One
    ELSE IF includes(s1, s2) THEN Contains
    ELSE LET distance == Levenshtein(s1, s2)
             maxLength == IF Len(s1) >= Len(s2) THEN Len(s1) ELSE Len(s2)
         IN IF maxLength = 0 THEN One ELSE <<maxLength - distance, maxLength>>

\* calculateSimilarity(str1, str2)
calculateSimilarity(str1, str2) ==
    LET s1 == normalize(str1)
        s2 == normalize(str2)
    IN
    IF s1 = s2 THEN One
    ELSE IF includes(s1, s2) \/ includes(s2, s1) THEN Contains
    ELSE LET distance == Levenshtein(s1, s2)
             maxLength == IF Len(s1) >= Len(s2) THEN Len(s1) ELSE Len(s2)
         IN IF maxLength = 0 THEN One ELSE <<maxLength - distance, maxLength>>

\* calculateSimilarity applied to the arguments, to the arguments swapped,
\* and to the first argument twice
CalculateSimilarity ==
    /\ Len(csOut) = 0
    /\ csOut' = <<calculateSimilarity(csIn[1], csIn[2])>>
    /\ UNCHANGED <<csIn, nzIn, nzOut, nzOthers>>

CalculateSwapped ==
    /\ Len(csOut) = 1
    /\ csOut' = Append(csOut, calculateSimilarity(csIn[2], csIn[1]))
    /\ UNCHANGED <<csIn, nzIn, nzOut, nzOthers>>

CalculateSelf ==
    /\ Len(csOut) = 2
    /\ csOut' = Append(csOut, calculateSimilarity(csIn[1], csIn[1]))
    /\ UNCHANGED <<csIn, nzIn, nzOut, nzOthers>>

\* results.sort((a, b) => b.score - a.score): stable, descending by score
RECURSIVE insertByScore(_, _)
insertByScore(sorted, r) ==
    IF sorted = <<>> THEN <<r>>
    ELSE IF ScoreGt(r.score, Head(sorted).score) THEN <<r>> \o sorted
    ELSE <<Head(sorted)>> \o insertByScore(Tail(sorted), r)

RECURSIVE sortByScore(_)
sortByScore(results) ==
    IF results = <<>> THEN <<>>
    ELSE insertByScore(sortByScore(SubSeq(results, 1, Len(results) - 1)),
                       results[Len(results)])

\* Array.prototype.slice(0, limit)
slice(a, limit) == SubSeq(a, 1, IF Len(a) < limit THEN Len(a) ELSE limit)

----------------------------------------------------------------------------
(* SecurityValidator.sanitize / sanitizeSearchQuery *)

\* longest input handed to the sanitizer
MaxInputLen == 3

MAX_INPUT_LENGTH == 200
MAX_SEARCH_LENGTH == 100

\* The static pattern objects are shared by all calls and carry the g flag,
\* so RegExp.prototype.test starts at their lastIndex and moves it.  Over
\* Chars only two of them can match: SQL_INJECTION_PATTERNS[2],
\* /(--|#|\/\*|\*\/)/gi, and BLOCKED_PATTERNS[8], /\.\./gi; every other
\* pattern needs a character outside Chars or a word that the letters of
\* Chars cannot spell, so its test returns false and its lastIndex stays 0.
Patterns == {"sqlComment", "pathTraversal"}

\* Length of the match of pattern p that starts at position i of s (0: none)
MatchLen(p, s, i) ==
    IF p = "sqlComment"
    THEN IF i + 1 <= Len(s) /\ s[i] = "-" /\ s[i + 1] = "-" THEN 2
         ELSE IF s[i] = "#" THEN 1
         ELSE 0
    ELSE IF i + 1 <= Len(s) /\ s[i] = "." /\ s[i + 1] = "." THEN 2
         ELSE 0

\* pattern.test(s) of a global pattern whose lastIndex is li: the verdict and
\* the lastIndex it leaves.
test(p, s, li) ==
    LET starts == {i \in (li + 1)..Len(s) : MatchLen(p, s, i) > 0} IN
    IF li > Len(s) \/ starts = {} THEN [found |-> FALSE, lastIndex |-> 0]
    ELSE LET i == CHOOSE x \in starts : \A y \in starts : x <= y IN
         [found |-> TRUE, lastIndex |-> (i - 1) + MatchLen(p, s, i)]

\* .replace(/<[^>]*>/g, '')
RECURSIVE removeTags(_)
removeTags(s) ==
    IF s = <<>> THEN <<>>
    ELSE IF Head(s) = "<" /\ \E j \in 2..Len(s) : s[j] = ">"
         THEN LET j == CHOOSE x \in 2..Len(s) :
                           s[x] = ">" /\ \A y \in 2..(x - 1) : s[y] # ">"
              IN removeTags(SubSeq(s, j + 1, Len(s)))
         ELSE <<Head(s)>> \o removeTags(Tail(s))

\* The third replace of sanitize, which deletes the characters < > ' ; and
\* the double quote, the backquote and the backslash; the last three are not
\* characters of the model's strings.
removeDangerous(s) ==
    SelectSeq(s, LAMBDA c : c \notin {"<", ">", "'", ";"})

\* sanitize(input) with the pattern objects in state li: the outcome, the
\* returned string and the state of the pattern objects afterwards.
sanitize(input, li) ==
    IF input = <<>> THEN [outcome |-> "value", value |-> <<>>, lastIndex |-> li]
    ELSE IF Len(input) > MAX_INPUT_LENGTH
    THEN [outcome |-> "error", value |-> <<>>, lastIndex |-> li]
    ELSE LET sql == test("sqlComment", input, li["sqlComment"])
             li1 == [li EXCEPT !["sqlComment"] = sql.lastIndex]
         IN
         IF sql.found
         THEN [outcome |-> "error", value |-> <<>>, lastIndex |-> li1]
         ELSE LET blocked == test("pathTraversal", input, li["pathTraversal"])
                  li2 == [li1 EXCEPT !["pathTraversal"] = blocked.lastIndex]
              IN
              IF blocked.found
              THEN [outcome |-> "error", value |-> <<>>, lastIndex |-> li2]
              ELSE [outcome |-> "value",
                    value |-> trim(collapseWhitespace(removeDangerous(removeTags(input)))),
                    lastIndex |-> li2]

\* sanitizeSearchQuery(query)
sanitizeSearchQuery(query, li) ==
    IF query = <<>> THEN [outcome |-> "value", value |-> <<>>, lastIndex |-> li]
    ELSE IF Len(query) > MAX_SEARCH_LENGTH
    THEN [outcome |-> "error", value |-> <<>>, lastIndex |-> li]
    ELSE IF Len(query) < 2
    THEN [outcome |-> "error", value |-> <<>>, lastIndex |-> li]
    ELSE sanitize(query, li)

\* The pattern objects as created by the class initializer
SaFields ==
    /\ lastIndex = [p \in Patterns |-> 0]
    /\ saInput = <<>>
    /\ saOutcome = "none"

\* One call SecurityValidator.sanitize(input)
Sanitize(input) ==
    LET r == sanitize(input, lastIndex) IN
    /\ lastIndex' = r.lastIndex
    /\ saInput' = input
    /\ saOutcome' = r.outcome
    /\ UNCHANGED saOthers

\* One call SecurityValidator.sanitizeSearchQuery(query)
SanitizeSearchQuery(query) ==
    LET r == sanitizeSearchQuery(query, lastIndex) IN
    /\ lastIndex' = r.lastIndex
    /\ saInput' = query
    /\ saOutcome' = r.outcome
    /\ UNCHANGED saOthers

----------------------------------------------------------------------------
(* SecurityValidator.checkRateLimit *)

\* Time is counted in ticks; the callers pass windowMs = 60000.
windowMs == 2
\* largest clock reading of the limiter
MaxRlClock == 4
\* largest maxRequests tried
MaxN == 2
\* calls recorded per client
MaxCalls == 4

Clients == {"anonymous", "client-a"}

EmptyMap == [x \in {} |-> <<>>]

\* A filter that keeps every timestamp, whatever its age
NoCleaning(timestamps, t, w) == timestamps

\* timestamps.filter(t => now - t < windowMs)
Recent(timestamps, t, w) == SelectSeq(timestamps, LAMBDA x : t - x < w)

\* A limiter that enters every call in the map, denied calls included
checkRateLimitRecordDenied(requests, identifier, maxRequests, w, t) ==
    IF identifier \notin DOMAIN requests
    THEN [allowed |-> TRUE, requests |-> requests @@ (identifier :> <<t>>)]
    ELSE LET recentRequests == Append(Recent(requests[identifier], t, w), t) IN
         [allowed |-> Len(recentRequests) <= maxRequests,
          requests |-> [requests EXCEPT ![identifier] = recentRequests]]

\* checkRateLimit(identifier, requests, maxRequests, windowMs) with Date.now()
\* read as t: the verdict and the map it leaves behind.
checkRateLimit(requests, identifier, maxRequests, w, t) ==
    IF identifier \notin DOMAIN requests
    THEN [allowed |-> TRUE, requests |-> requests @@ (identifier :> <<t>>)]
    ELSE LET recentRequests == Recent(requests[identifier], t, w) IN
         IF Len(recentRequests) >= maxRequests
         THEN [allowed |-> FALSE, requests |-> requests]
         ELSE [allowed |-> TRUE,
               requests |-> [requests EXCEPT ![identifier] = Append(recentRequests, t)]]

\* An empty rate-limit map (private rateLimit = new Map())
RlFields ==
    /\ rateLimit = EmptyMap
    /\ rlNow = 0
    /\ rlLog = [c \in Clients |-> <<>>]

Logged(c, t, class, allowed) ==
    [rlLog EXCEPT ![c] = Append(@, [t |-> t, class |-> class, allowed |-> allowed])]

\* One call checkRateLimit(c, rateLimit, rlMax, windowMs)
CheckRateLimit(c) ==
    /\ Len(rlLog[c]) < MaxCalls
    /\ \E t \in rlNow..MaxRlClock :
        LET r == checkRateLimit(rateLimit, c, rlMax, windowMs, t) IN
        /\ rateLimit' = r.requests
        /\ rlNow' = t
        /\ rlLog' = Logged(c, t, "check", r.allowed)
    /\ UNCHANGED <<rlMax, rlOthers>>

----------------------------------------------------------------------------
(* LocationService cache *)

KeysOf(times) == {times[i][1] : i \in 1..Len(times)}

\* Map.set: an existing key keeps its position, a new key is appended.
MapSet(times, k, t) ==
    IF k \in KeysOf(times)
    THEN [i \in 1..Len(times) |-> IF times[i][1] = k THEN <<k, t>> ELSE times[i]]
    ELSE Append(times, <<k, t>>)

\* Map.delete
MapDelete(times, k) == SelectSeq(times, LAMBDA e : e[1] # k)

\* The loop of manageCacheSize: oldestKey = '', oldestTime = Date.now();
\* an entry replaces the candidate only when its time is strictly smaller.
RECURSIVE ScanOldest(_, _, _, _)
ScanOldest(times, i, oldestKey, oldestTime) ==
    IF i > Len(times) THEN oldestKey
    ELSE IF times[i][2] < oldestTime
         THEN ScanOldest(times, i + 1, times[i][1], times[i][2])
         ELSE ScanOldest(times, i + 1, oldestKey, oldestTime)

EvictStrictlyOlder(c, times, t) ==
    LET oldestKey == ScanOldest(times, 1, "", t) IN
    IF oldestKey # ""
    THEN [cache |-> c \ {oldestKey}, times |-> MapDelete(times, oldestKey)]
    ELSE [cache |-> c, times |-> times]

\* manageCacheSize(), reading the clock as t
manageCacheSize(c, times, t) ==
    IF Cardinality(c) >= maxCacheSize
    THEN EvictStrictlyOlder(c, times, t)
    ELSE [cache |-> c, times |-> times]

\* setToCache(key, value): manageCacheSize reads the clock as t1, the access
\* time is stamped with the later reading t2.
setToCache(c, times, k, t1, t2) ==
    LET m == manageCacheSize(c, times, t1) IN
    [cache |-> m.cache \cup {k}, times |-> MapSet(m.times, k, t2)]

\* No value recorded, and the values left once the cache holds the given keys
NoValues == [k \in {} |-> <<>>]
NoResult == [kind |-> "none", v |-> <<>>]
Kept(values, keys) == [k \in (DOMAIN values) \cap keys |-> values[k]]

\* The fields of a freshly constructed LocationService
LsFields ==
    /\ initialized = FALSE
    /\ rawData = <<>>
    /\ cache = {}
    /\ cacheAccessTimes = <<>>
    /\ now = 0
    /\ lsOp = "none"
    /\ lsOutcome = "none"
    /\ everSet = {}
    /\ lastAccess = [k \in CacheKeys |-> NoTime]
    /\ cacheValues = NoValues
    /\ lsQuery = [op |-> "none"]
    /\ lsResult = NoResult

\* A CSV text is known by what the code makes of it: rejected by
\* validateCsvData, or the records extractRawRecords reads from it; "absent"
\* is the csvData argument left out.
InvalidCsv == [kind |-> "invalid", records |-> <<>>]
AbsentCsv == [kind |-> "absent", records |-> <<>>]
CsvOf(records) == [kind |-> "records", records |-> records]

\* initializeData keeping what it read of a CSV that it then rejects
InitializeWithDataPartial(csv) ==
    /\ UNCHANGED lsOthers
    /\ lsOp' = "initializeWithData"
    /\ IF initialized
       THEN /\ lsOutcome' = "value"
            /\ UNCHANGED <<initialized, rawData>>
       ELSE IF csv.kind = "records"
            THEN /\ initialized' = TRUE
                 /\ rawData' = csv.records
                 /\ lsOutcome' = "value"
            ELSE /\ lsOutcome' = "error"
                 /\ rawData' = <<csv>>
                 /\ UNCHANGED initialized
    /\ UNCHANGED <<cache, cacheAccessTimes, now, everSet, lastAccess,
                   cacheValues, lsQuery, lsResult>>

\* initializeWithData(csvData) -> initializeData(csvData)
InitializeWithData(csv) ==
    /\ UNCHANGED lsOthers
    /\ lsOp' = "initializeWithData"
    /\ IF initialized
       THEN /\ lsOutcome' = "value"
            /\ UNCHANGED <<initialized, rawData>>
       ELSE IF csv.kind = "records"
            THEN /\ initialized' = TRUE
                 /\ rawData' = csv.records
                 /\ lsOutcome' = "value"
            ELSE /\ lsOutcome' = "error"
                 /\ UNCHANGED <<initialized, rawData>>
    /\ UNCHANGED <<cache, cacheAccessTimes, now, everSet, lastAccess,
                   cacheValues, lsQuery, lsResult>>

\* An accessor that was not initialized: ensureInitialized() calls
\* initializeData() without csvData, which throws.
AccessorUninitialized(k) ==
    /\ UNCHANGED lsOthers
    /\ ~initialized
    /\ lsOp' = "accessor"
    /\ lsOutcome' = "error"
    /\ UNCHANGED <<initialized, rawData, cache, cacheAccessTimes, now, everSet, lastAccess,
                   cacheValues, lsQuery, lsResult>>

\* An accessor whose key is cached with a truthy value: getFromCache stamps
\* the access time and the cached value is returned.
AccessorHit(k) ==
    /\ UNCHANGED lsOthers
    /\ initialized
    /\ k \in cache
    /\ k \notin NullKeys
    /\ \E t \in now..MaxClock :
        /\ cacheAccessTimes' = MapSet(cacheAccessTimes, k, t)
        /\ lastAccess' = [lastAccess EXCEPT ![k] = t]
        /\ now' = t
    /\ lsOp' = "accessor"
    /\ lsOutcome' = "value"
    /\ UNCHANGED <<initialized, rawData, cache, everSet, cacheValues, lsQuery, lsResult>>

\* An accessor whose key is absent: getFromCache returns undefined without
\* reading the clock, the value is computed and setToCache stores it.
AccessorMiss(k) ==
    /\ UNCHANGED lsOthers
    /\ initialized
    /\ k \notin cache
    /\ \E t1 \in now..MaxClock : \E t2 \in t1..MaxClock :
        LET s == setToCache(cache, cacheAccessTimes, k, t1, t2) IN
        /\ cache' = s.cache
        /\ cacheAccessTimes' = s.times
        /\ lastAccess' = [lastAccess EXCEPT ![k] = t2]
        /\ now' = t2
    /\ everSet' = everSet \cup {k}
    /\ cacheValues' = Kept(cacheValues, cache')
    /\ lsOp' = "accessor"
    /\ lsOutcome' = "value"
    /\ UNCHANGED <<initialized, rawData, lsQuery, lsResult>>

\* An accessor whose key is cached with null: getFromCache stamps the access
\* time and returns null, `if (cached)` fails, and the value is computed and
\* stored again.
AccessorNullHit(k) ==
    /\ UNCHANGED lsOthers
    /\ initialized
    /\ k \in cache
    /\ k \in NullKeys
    /\ \E t0 \in now..MaxClock : \E t1 \in t0..MaxClock : \E t2 \in t1..MaxClock :
        LET s == setToCache(cache, MapSet(cacheAccessTimes, k, t0), k, t1, t2) IN
        /\ cache' = s.cache
        /\ cacheAccessTimes' = s.times
        /\ lastAccess' = [lastAccess EXCEPT ![k] = t2]
        /\ now' = t2
    /\ everSet' = everSet \cup {k}
    /\ cacheValues' = Kept(cacheValues, cache')
    /\ lsOp' = "accessor"
    /\ lsOutcome' = "value"
    /\ UNCHANGED <<initialized, rawData, lsQuery, lsResult>>

\* clearCache()
ClearCache ==
    /\ UNCHANGED lsOthers
    /\ cache' = {}
    /\ cacheAccessTimes' = <<>>
    /\ everSet' = {}
    /\ lastAccess' = [k \in CacheKeys |-> NoTime]
    /\ cacheValues' = NoValues
    /\ lsOp' = "clearCache"
    /\ lsOutcome' = "none"
    /\ UNCHANGED <<initialized, rawData, now, lsQuery, lsResult>>

----------------------------------------------------------------------------
(* Source data *)

\* The fields of a LocationRecord in the order buildSearchIndex adds them,
\* each with the type it is indexed as.
RecordFields ==
    << <<"idregion", "region">>, <<"iddistrict", "district">>,
       <<"idcouncil", "council">>, <<"idchiefdom", "chiefdom">>,
       <<"idsection", "section">>, <<"idtown", "town">> >>

\* Source records.  A record gives the six names of one town; names are
\* drawn so that the index meets a name of one character, a name of several
\* words, a name shared by two types and names with punctuation.
MaxRecords == 2

Rec(region, district, council, chiefdom, section, town) ==
    [idregion |-> region, iddistrict |-> district, idcouncil |-> council,
     idchiefdom |-> chiefdom, idsection |-> section, idtown |-> town]

Records ==
    << Rec(<<"A", "b">>, <<"B", "a">>, <<"B", "a">>, <<"A", "b", " ", "B", "a", "b">>,
           <<"B", "a", "b">>, <<"B", "a", "a">>),
       Rec(<<"A", "b">>, <<"B", "b">>, <<>>, <<"A", "-", "B">>,
           <<"B">>, <<"B", "a", ".">>),
       Rec(<<"B", "a">>, <<"A", "b">>, <<"A", "b">>,
           <<"A", "b", " ", ".", " ", "B", "a", "b">>,
           <<"B", "a", " ", "A", "b">>, <<"A", "a">>) >>

Range(seq) == {seq[i] : i \in 1..Len(seq)}

\* The datasets a service is loaded with: up to MaxRecords consecutive records
Datasets ==
    {SubSeq(Records, i, j) : i \in 1..Len(Records), j \in 1..Len(Records)}
        \cap UNION {[1..n -> Range(Records)] : n \in 1..MaxRecords}

SmallData == SubSeq(Records, 1, 1)

\* Two records whose twelve names all begin with "Ba": more names than
\* autocomplete returns for one query
ManyNames ==
    << Rec(<<"B", "a">>, <<"B", "a", "a">>, <<"B", "a", "b">>,
           <<"B", "a", "a", "a">>, <<"B", "a", "a", "b">>, <<"B", "a", "b", "a">>),
       Rec(<<"B", "a", "b", "b">>, <<"B", "a", "a", "a", "a">>, <<"B", "a", "a", "a", "b">>,
           <<"B", "a", "a", "b", "a">>, <<"B", "a", "a", "b", "b">>,
           <<"B", "a", "b", "a", "a">>) >>

\* The entities of a list of records: every non-empty name with its type
EntitiesOf(records) ==
    {e \in {[name |-> records[i][RecordFields[f][1]], type |-> RecordFields[f][2]] :
                i \in 1..Len(records), f \in 1..Len(RecordFields)} :
        e.name # <<>>}

----------------------------------------------------------------------------
(* SearchService *)

\* The limits the source passes to checkRateLimit are 50 (autocomplete) and
\* 30 (search); the model keeps their order and runs with small quotas.
AutocompleteMax == 3
SearchMax == 2

DefaultSearchLimit == 20
DefaultAutocompleteLimit == 10

LocationTypes == {"region", "district", "council", "chiefdom", "section", "town"}

\* The default of the parameter options of search
DefaultOptions ==
    [limit |-> DefaultSearchLimit, minScore |-> <<3, 10>>,
     types |-> LocationTypes, fuzzy |-> TRUE]

\* this.searchIndex.get(key) || []
IndexGet(index, key) ==
    IF \E i \in 1..Len(index) : index[i].key = key
    THEN index[CHOOSE i \in 1..Len(index) : index[i].key = key].entries
    ELSE <<>>

\* addEntryToKey without the exists check: the entry is always pushed
addEntryToKeyAlways(index, key, entry) ==
    IF \E i \in 1..Len(index) : index[i].key = key
    THEN [i \in 1..Len(index) |->
            IF index[i].key = key
            THEN [index[i] EXCEPT !.entries = Append(@, entry)]
            ELSE index[i]]
    ELSE Append(index, [key |-> key, entries |-> <<entry>>])

\* addEntryToKey(key, entry)
addEntryToKey(index, key, entry) ==
    LET exists(entries) ==
            \E i \in 1..Len(entries) :
                /\ entries[i].name = entry.name
                /\ entries[i].type = entry.type
                /\ entries[i].normalized = entry.normalized
    IN
    IF \E i \in 1..Len(index) : index[i].key = key
    THEN [i \in 1..Len(index) |->
            IF index[i].key = key /\ ~exists(index[i].entries)
            THEN [index[i] EXCEPT !.entries = Append(@, entry)]
            ELSE index[i]]
    ELSE Append(index, [key |-> key, entries |-> <<entry>>])

\* words.forEach(word => { if (word.length > 2) addEntryToKey(word, partialEntry) })
RECURSIVE addWords(_, _, _)
addWords(index, words, partialEntry) ==
    IF words = <<>> THEN index
    ELSE addWords(IF Len(Head(words)) > 2
                  THEN addEntryToKey(index, Head(words), partialEntry)
                  ELSE index,
                  Tail(words), partialEntry)

\* addToIndex storing the phonetic entry without partialMatch
addToIndexUnflagged(index, name, type, record) ==
    IF name = <<>> \/ trim(name) = <<>> THEN index
    ELSE LET normalized == normalize(name)
             entry == [name |-> trim(name), type |-> type, normalized |-> normalized,
                       record |-> record, partialMatch |-> FALSE]
             partialEntry == [entry EXCEPT !.partialMatch = TRUE]
             words == split(normalized)
             phoneticKey == getPhoneticKey(normalized)
             withName == addEntryToKey(index, normalized, entry)
             withWords == IF Len(words) > 1
                          THEN addWords(withName, words, partialEntry)
                          ELSE withName
         IN IF phoneticKey # normalized
            THEN addEntryToKey(withWords, phoneticKey, entry)
            ELSE withWords

\* addToIndex(name, type, record); partialMatch FALSE stands for the unset
\* flag, and the entry refers to its record by the record's position in the
\* record list.
addToIndex(index, name, type, record) ==
    IF name = <<>> \/ trim(name) = <<>> THEN index
    ELSE LET normalized == normalize(name)
             entry == [name |-> trim(name), type |-> type, normalized |-> normalized,
                       record |-> record, partialMatch |-> FALSE]
             partialEntry == [entry EXCEPT !.partialMatch = TRUE]
             words == split(normalized)
             phoneticKey == getPhoneticKey(normalized)
             withName == addEntryToKey(index, normalized, entry)
             withWords == IF Len(words) > 1
                          THEN addWords(withName, words, partialEntry)
                          ELSE withName
         IN IF phoneticKey # normalized
            THEN addEntryToKey(withWords, phoneticKey, partialEntry)
            ELSE withWords

\* The six addToIndex calls made for the record at position r (the index never
\* shrinks; the test on its length makes each step be computed before the next)
RECURSIVE addRecordFields(_, _, _, _)
addRecordFields(index, allRecords, r, f) ==
    IF f > Len(RecordFields) THEN index
    ELSE LET added == addToIndex(index, allRecords[r][RecordFields[f][1]],
                                 RecordFields[f][2], r)
         IN IF Len(added) >= Len(index)
            THEN addRecordFields(added, allRecords, r, f + 1)
            ELSE index

\* allRecords.forEach(record => ...) from position r on
RECURSIVE forEachRecord(_, _, _)
forEachRecord(index, allRecords, r) ==
    IF r > Len(allRecords) THEN index
    ELSE LET added == addRecordFields(index, allRecords, r, 1)
         IN IF Len(added) >= Len(index)
            THEN forEachRecord(added, allRecords, r + 1)
            ELSE index

\* buildSearchIndex(), onto the index as it stands
buildSearchIndex(index, allRecords) == forEachRecord(index, allRecords, 1)

\* One forEach of search over the entries of a key: an entry is pushed when
\* its type is asked for, its `${name}-${type}` was not seen (the keys seen are
\* those of the results so far) and its score passes.
RECURSIVE collect(_, _, _, _, _)
collect(results, entries, query, options, tier) ==
    IF entries = <<>> THEN results
    ELSE LET entry == Head(entries)
             similarity == calculateSimilarity(query, entry.normalized)
             score == IF tier = "exact" THEN One
                      ELSE IF tier = "partial" THEN similarity
                      ELSE ScoreTimes(similarity, <<8, 10>>)
             seen == \E i \in 1..Len(results) :
                        results[i].name = entry.name /\ results[i].type = entry.type
             keep == /\ entry.type \in options.types
                     /\ ~seen
                     /\ (tier = "exact" \/ ScoreGeq(score, options.minScore))
         IN collect(IF keep
                    THEN Append(results, [name |-> entry.name, type |-> entry.type,
                                          score |-> score])
                    ELSE results,
                    Tail(entries), query, options, tier)

\* for (const word of queryWords) if (word.length > 2) ...
RECURSIVE collectWords(_, _, _, _, _)
collectWords(results, index, words, query, options) ==
    IF words = <<>> THEN results
    ELSE collectWords(
             IF Len(Head(words)) > 2
             THEN collect(results, IndexGet(index, Head(words)), query, options, "partial")
             ELSE results,
             index, Tail(words), query, options)

\* The body of search after the query was sanitized to a non-empty string.
\* A result keeps name, type and score; fullPath and code are derived from
\* the entry and take no part in the selection.
searchResults(index, sanitized, options) ==
    LET normalized == normalize(sanitized)
        exact == collect(<<>>, IndexGet(index, normalized), normalized, options, "exact")
        partial == IF Len(exact) < options.limit
                   THEN collectWords(exact, index, split(normalized), normalized, options)
                   ELSE exact
        fuzzy == IF options.fuzzy /\ 2 * Len(partial) < options.limit
                 THEN collect(partial, IndexGet(index, getPhoneticKey(normalized)),
                              normalized, options, "fuzzy")
                 ELSE partial
    IN slice(sortByScore(fuzzy), options.limit)

\* entries.forEach of autocomplete: names not seen whose score exceeds 0.3
RECURSIVE collectNames(_, _, _)
collectNames(results, entries, normalized) ==
    IF entries = <<>> THEN results
    ELSE LET entry == Head(entries)
             score == calculateSimilarity(normalized, entry.normalized)
             seen == \E i \in 1..Len(results) : results[i].name = entry.name
             pushed == IF ~seen /\ ScoreGt(score, <<3, 10>>)
                       THEN Append(results, [name |-> entry.name, score |-> score])
                       ELSE results
         IN IF Len(pushed) >= Len(results)
            THEN collectNames(pushed, Tail(entries), normalized)
            ELSE results

RECURSIVE scanIndex(_, _, _)
scanIndex(results, index, normalized) ==
    IF index = <<>> THEN results
    ELSE LET found == IF includes(Head(index).key, normalized)
                         \/ includes(normalized, Head(index).key)
                      THEN collectNames(results, Head(index).entries, normalized)
                      ELSE results
         IN IF Len(found) >= Len(results)
            THEN scanIndex(found, Tail(index), normalized)
            ELSE results

\* The body of autocomplete after the query was sanitized
autocompleteResults(index, sanitized, limit) ==
    LET sorted == slice(sortByScore(scanIndex(<<>>, index, normalize(sanitized))), limit)
    IN [i \in 1..Len(sorted) |-> sorted[i].name]

\* A SearchService as constructed: empty index
SxFields ==
    /\ searchIndex = <<>>
    /\ sxOp = "none"
    /\ sxQuery = <<>>
    /\ sxOptions = DefaultOptions
    /\ sxOutcome = "none"
    /\ sxResult = <<>>

\* One getFromCache / setToCache pair of an accessor whose value is truthy,
\* on the cache state st, every clock reading being t
Cached(st, k, t) ==
    IF k \in st.cache
    THEN [st EXCEPT !.times = MapSet(@, k, t), !.lastAccess = (k :> t) @@ @]
    ELSE LET set == setToCache(st.cache, st.times, k, t, t) IN
         [cache |-> set.cache, times |-> set.times,
          everSet |-> st.everSet \cup {k},
          lastAccess |-> (k :> t) @@ st.lastAccess]

\* initialize(csvData?): initializeWithData when a CSV is given, then
\* buildSearchIndex, which reads getStatistics() and getLocationsByQuery({})
\* through the LocationService cache, at the clock readings t1 and t2, and adds
\* every record to the index.
initializeCall(csv, t1, t2) ==
    /\ sxOp' = "initialize"
    /\ UNCHANGED <<sxQuery, sxOptions, sxResult, rlVars, nzVars, saVars>>
    /\ IF ~initialized /\ csv.kind # "records"
       THEN /\ sxOutcome' = "error"
            /\ UNCHANGED <<searchIndex, lsVars>>
       ELSE /\ initialized' = TRUE
            /\ rawData' = IF initialized THEN rawData ELSE csv.records
            /\ searchIndex' = buildSearchIndex(searchIndex, rawData')
            /\ sxOutcome' = "value"
            /\ lsOp' = "getLocationsByQuery"
            /\ lsOutcome' = "value"
            /\ LET st == [cache |-> cache, times |-> cacheAccessTimes,
                           everSet |-> everSet, lastAccess |-> lastAccess]
                    after == Cached(Cached(st, "statistics", t1), "query-{}", t2)
               IN
               /\ cache' = after.cache
               /\ cacheAccessTimes' = after.times
               /\ everSet' = after.everSet
               /\ lastAccess' = after.lastAccess
               /\ cacheValues' = Kept(cacheValues, after.cache)
               /\ now' = t2
               /\ UNCHANGED <<lsQuery, lsResult>>

Initialize(csv, t1, t2) == initializeCall(csv, t1, t2) /\ UNCHANGED vsVars

\* The number of calls entered in the history
RECURSIVE SumLen(_, _)
SumLen(log, clients) ==
    IF clients = {} THEN 0
    ELSE LET c == CHOOSE x \in clients : TRUE
         IN Len(log[c]) + SumLen(log, clients \ {c})

Recorded == SumLen(rlLog, Clients)

\* search validating the query before the admission check records the call
searchCallValidatedFirst(query, options, c, t) ==
    \E admission \in {checkRateLimit(rateLimit, c, SearchMax, windowMs, t)} :
    \E sanitized \in {sanitizeSearchQuery(query, lastIndex)} :
    /\ rateLimit' = IF sanitized.outcome = "error" \/ sanitized.value = <<>>
                    THEN rateLimit
                    ELSE admission.requests
    /\ rlNow' = t
    /\ sxOp' = "search"
    /\ sxQuery' = query
    /\ sxOptions' = options
    /\ IF ~admission.allowed
       THEN /\ sxOutcome' = "rateLimited"
            /\ sxResult' = <<>>
            /\ UNCHANGED lastIndex
       ELSE /\ lastIndex' = sanitized.lastIndex
            /\ sxOutcome' = sanitized.outcome
            /\ sxResult' = IF sanitized.outcome = "error" \/ sanitized.value = <<>>
                           THEN <<>>
                           ELSE searchResults(searchIndex, sanitized.value, options)
    /\ UNCHANGED <<searchIndex, rlMax, saInput, saOutcome, lsVars, nzVars, vsVars>>

\* The body of search(query, options, clientId) with Date.now() read as t:
\* everything the call does but its entry in the history
searchCall(query, options, c, t) ==
    \E admission \in {checkRateLimit(rateLimit, c, SearchMax, windowMs, t)} :
    \E sanitized \in {sanitizeSearchQuery(query, lastIndex)} :
    /\ rateLimit' = admission.requests
    /\ rlNow' = t
    /\ sxOp' = "search"
    /\ sxQuery' = query
    /\ sxOptions' = options
    /\ IF ~admission.allowed
       THEN /\ sxOutcome' = "rateLimited"
            /\ sxResult' = <<>>
            /\ UNCHANGED lastIndex
       ELSE /\ lastIndex' = sanitized.lastIndex
            /\ sxOutcome' = sanitized.outcome
            /\ sxResult' = IF sanitized.outcome = "error" \/ sanitized.value = <<>>
                           THEN <<>>
                           ELSE searchResults(searchIndex, sanitized.value, options)
    /\ UNCHANGED <<searchIndex, rlMax, saInput, saOutcome, lsVars, nzVars, vsVars>>

\* search(query, options, clientId) with Date.now() read as t; record says
\* whether the call is entered in the history rlLog.
Search(query, options, c, t, record) ==
    /\ record => Recorded < MaxCalls
    /\ searchCall(query, options, c, t)
    /\ rlLog' = IF record THEN Logged(c, t, "search", sxOutcome' # "rateLimited")
                ELSE rlLog

\* The search of the package object, called as the README documents it with a
\* clientId as third argument: the arrow function takes (query, options) and
\* calls searchService.search(query, options), so clientId takes its default.
\* The call is entered in the history under the clientId the caller gave.
PackageSearch(query, options, clientId, t) ==
    /\ Recorded < MaxCalls
    /\ searchCall(query, options, "anonymous", t)
    /\ rlLog' = Logged(clientId, t, "search", sxOutcome' # "rateLimited")

\* autocomplete(query, clientId, limit) with Date.now() read as t
Autocomplete(query, limit, c, t, record) ==
    \E admission \in {checkRateLimit(rateLimit, c, AutocompleteMax, windowMs, t)} :
    \E sanitized \in {sanitizeSearchQuery(query, lastIndex)} :
    /\ record => Recorded < MaxCalls
    /\ rateLimit' = admission.requests
    /\ rlNow' = t
    /\ rlLog' = IF record THEN Logged(c, t, "autocomplete", admission.allowed) ELSE rlLog
    /\ sxOp' = "autocomplete"
    /\ sxQuery' = query
    /\ sxOptions' = [DefaultOptions EXCEPT !.limit = limit]
    /\ IF ~admission.allowed
       THEN /\ sxOutcome' = "rateLimited"
            /\ sxResult' = <<>>
            /\ UNCHANGED lastIndex
       ELSE /\ lastIndex' = sanitized.lastIndex
            /\ sxOutcome' = sanitized.outcome
            /\ sxResult' = IF sanitized.outcome = "error" \/ Len(sanitized.value) < 2
                           THEN <<>>
                           ELSE autocompleteResults(searchIndex, sanitized.value, limit)
    /\ UNCHANGED <<searchIndex, rlMax, saInput, saOutcome, lsVars, nzVars, vsVars>>

\* The autocomplete of the package object hands its arguments on
PackageAutocomplete(query, clientId, limit, t) ==
    Autocomplete(query, limit, clientId, t, TRUE)

\* clearRateLimit()
ClearRateLimit ==
    /\ rateLimit' = EmptyMap
    /\ rlLog' = [c \in Clients |-> <<>>]
    /\ sxOp' = "clearRateLimit"
    /\ sxOutcome' = "none"
    /\ UNCHANGED <<rlNow, rlMax, searchIndex, sxQuery, sxOptions, sxResult,
                   lsVars, nzVars, saVars, vsVars>>

----------------------------------------------------------------------------
(* LocationService name lists *)

\* The UTF-16 code unit of a character, which Array.prototype.sort compares
CharCode(c) ==
    CASE c = " " -> 32 [] c = "!" -> 33 [] c = "#" -> 35 [] c = "-" -> 45
      [] c = "." -> 46 [] c = ";" -> 59 [] c = "A" -> 65 [] c = "B" -> 66
      [] c = "a" -> 97 [] c = "b" -> 98

\* a < b in the order of the default sort
RECURSIVE StrLess(_, _)
StrLess(a, b) ==
    IF b = <<>> THEN FALSE
    ELSE IF a = <<>> THEN TRUE
    ELSE IF Head(a) = Head(b) THEN StrLess(Tail(a), Tail(b))
    ELSE CharCode(Head(a)) < CharCode(Head(b))

\* Array.from(new Set(names)).sort(): the distinct names in ascending order
RECURSIVE sortNames(_)
sortNames(names) ==
    IF names = {} THEN <<>>
    ELSE LET first == CHOOSE n \in names : \A m \in names \ {n} : StrLess(n, m)
         IN <<first>> \o sortNames(names \ {first})

\* A string of the cache as one value
RECURSIVE Str(_)
Str(s) == IF s = <<>> THEN "" ELSE Head(s) \o Str(Tail(s))

\* The list an accessor computes: the names in `field` of the records whose
\* fields in `scope` (field -> normalized name) match, blank names left out
nameList(records, field, scope) ==
    sortNames({records[i][field] : i \in
                  {i \in 1..Len(records) :
                      \A f \in DOMAIN scope : normalize(records[i][f]) = scope[f]}}
              \ {n \in {records[i][field] : i \in 1..Len(records)} : trim(n) = <<>>})

NoScope == [f \in {} |-> <<>>]

\* What an accessor asks of the records once its arguments were sanitized
\* (s1, s2) and normalized (n1, n2): the cache key, the field it lists and the
\* fields it filters on; or the error of SecurityValidator.sanitize
accessorQuery(level, scope1, scope2, li, s1, n1, s2, n2) ==
    LET plain(key, field) ==
            [outcome |-> "value", key |-> key, lastIndex |-> li,
             field |-> field, scope |-> NoScope]
        failed(s) ==
            [outcome |-> "error", key |-> "", lastIndex |-> s.lastIndex,
             field |-> "", scope |-> NoScope]
        scoped(prefix, field, scopeField) ==
            IF s1.outcome = "error" THEN failed(s1)
            ELSE [outcome |-> "value", key |-> prefix \o Str(n1), lastIndex |-> s1.lastIndex,
                  field |-> field, scope |-> scopeField :> n1]
    IN
    CASE level = "region" -> plain("provinces", "idregion")
      [] level = "district" ->
            IF scope1 = <<>> THEN plain("all-districts", "iddistrict")
            ELSE scoped("districts-", "iddistrict", "idregion")
      [] level = "council" -> scoped("councils-", "idcouncil", "iddistrict")
      [] level = "chiefdom" -> scoped("chiefdoms-", "idchiefdom", "iddistrict")
      [] level = "section" -> scoped("sections-", "idsection", "idchiefdom")
      [] level = "town" ->
            IF scope1 = <<>> THEN plain("all-towns", "idtown")
            ELSE IF scope2 = <<>> THEN scoped("towns-chiefdom-", "idtown", "idchiefdom")
            ELSE IF s1.outcome = "error" THEN failed(s1)
            ELSE IF s2.outcome = "error" THEN failed(s2)
            ELSE [outcome |-> "value",
                  key |-> "towns-chiefdom-" \o Str(n1) \o "-section-" \o Str(n2),
                  lastIndex |-> s2.lastIndex,
                  field |-> "idtown",
                  scope |-> ("idchiefdom" :> n1) @@ ("idsection" :> n2)]

\* The list an accessor computes for what it asks
accessorResult(records, asked) ==
    [outcome |-> asked.outcome, key |-> asked.key, lastIndex |-> asked.lastIndex,
     value |-> IF asked.outcome = "error" THEN <<>>
               ELSE nameList(records, asked.field, asked.scope)]

\* An accessor after the sanitize of its first argument
sanitizedAccessor(records, level, scope1, scope2, li, s1, s2) ==
    accessorResult(records,
                   accessorQuery(level, scope1, scope2, li,
                                 s1, normalize(s1.value), s2, normalize(s2.value)))

\* The accessors getProvinces, getDistricts, getCouncils, getChiefdoms,
\* getSections and getTowns on an initialized service: the cache key they use
\* and the list they compute, or the error of SecurityValidator.sanitize.
\* An argument left out is the empty string.
listAccessor(records, level, scope1, scope2, li) ==
    sanitizedAccessor(records, level, scope1, scope2, li, sanitize(scope1, li),
                      sanitize(scope2, sanitize(scope1, li).lastIndex))

----------------------------------------------------------------------------
(* SearchService.getSuggestions *)

\* entries.forEach(entry => { if (!type || entry.type === type) suggestions.add(entry.name) })
\* with type "" for the argument left out; a Set keeps its insertion order
RECURSIVE addSuggestions(_, _, _)
addSuggestions(suggestions, entries, type) ==
    IF entries = <<>> THEN suggestions
    ELSE addSuggestions(
             IF (type = "" \/ Head(entries).type = type)
                /\ Head(entries).name \notin Range(suggestions)
             THEN Append(suggestions, Head(entries).name)
             ELSE suggestions,
             Tail(entries), type)

\* The loop of getSuggestions over the index from position k on, left as soon
\* as the set holds limit names
RECURSIVE scanPrefix(_, _, _, _, _, _)
scanPrefix(suggestions, index, k, normalized, type, limit) ==
    IF k > Len(index) THEN suggestions
    ELSE LET next == IF startsWith(index[k].key, normalized)
                     THEN addSuggestions(suggestions, index[k].entries, type)
                     ELSE suggestions
         IN IF Len(next) >= limit THEN next
            ELSE scanPrefix(next, index, k + 1, normalized, type, limit)

\* getSuggestions(partial, type, limit)
getSuggestions(index, partial, type, limit, li) ==
    LET sanitized == sanitizeSearchQuery(partial, li) IN
    IF sanitized.outcome = "error" \/ Len(sanitized.value) < 1
    THEN [outcome |-> sanitized.outcome, value |-> <<>>, lastIndex |-> sanitized.lastIndex]
    ELSE [outcome |-> "value", lastIndex |-> sanitized.lastIndex,
          value |-> sortNames(Range(slice(
                        scanPrefix(<<>>, index, 1, normalize(sanitized.value), type, limit),
                        limit)))]

\* getSuggestions(partial, type, limit); type "" is the argument left out
GetSuggestions(partial, type, limit) ==
    \E suggested \in {getSuggestions(searchIndex, partial, type, limit, lastIndex)} :
        /\ sxOp' = "getSuggestions"
        /\ sxQuery' = partial
        /\ sxOptions' = [DefaultOptions EXCEPT
                            !.limit = limit,
                            !.types = IF type = "" THEN LocationTypes ELSE {type}]
        /\ sxOutcome' = suggested.outcome
        /\ sxResult' = suggested.value
        /\ lastIndex' = suggested.lastIndex
        /\ UNCHANGED <<searchIndex, saInput, saOutcome, lsVars, rlVars, nzVars, vsVars>>

----------------------------------------------------------------------------
(* ValidationService *)

\* The state a validation reads and writes: the lastIndex of the shared
\* patterns and the LocationService cache
Current ==
    [lastIndex |-> lastIndex, cache |-> cache, times |-> cacheAccessTimes,
     everSet |-> everSet, lastAccess |-> lastAccess]

\* The cache state c together with lastIndex
withLastIndex(li, c) ==
    [lastIndex |-> li, cache |-> c.cache, times |-> c.times,
     everSet |-> c.everSet, lastAccess |-> c.lastAccess]

\* An accessor reading key k through the cache at clock reading t
readThrough(st, k, t) ==
    withLastIndex(st.lastIndex,
                  Cached([cache |-> st.cache, times |-> st.times,
                          everSet |-> st.everSet, lastAccess |-> st.lastAccess], k, t))

Failure(message, st) ==
    [result |-> [isValid |-> FALSE, message |-> message, suggestions |-> <<>>], state |-> st]

ErrorMessage == [kind |-> "error", level |-> "", name |-> <<>>, scope |-> <<>>]

\* The sanitizeSearchQuery calls of an isValid function on the name and on
\* the scopes it was given, each starting from the lastIndex the one before
\* left
sanitizeArguments(name, scope1, scope2, li) ==
    LET sanitized == sanitizeSearchQuery(name, li)
        q1 == sanitizeSearchQuery(scope1, sanitized.lastIndex)
    IN [name |-> sanitized,
        scope1 |-> q1,
        scope2 |-> IF scope1 # <<>> /\ scope2 # <<>>
                   THEN sanitizeSearchQuery(scope2, q1.lastIndex)
                   ELSE [outcome |-> "value", value |-> <<>>, lastIndex |-> q1.lastIndex]]

\* The rest of an isValid function once the accessor returned names: the
\* comparison of normalized names and, when none is equal, getSuggestions
validateAmong(level, name, scope1, index, st, t, sanitized, names) ==
    LET isValid == \E i \in 1..Len(names.value) :
                       normalize(names.value[i]) = normalize(sanitized)
        suggestions == getSuggestions(index, sanitized, level, 3, names.lastIndex)
    IN
    IF names.outcome = "error"
    THEN Failure(ErrorMessage, [st EXCEPT !.lastIndex = names.lastIndex])
    ELSE [result |->
              IF isValid
              THEN [isValid |-> TRUE, message |-> [kind |-> "none", level |-> "",
                                                   name |-> <<>>, scope |-> <<>>],
                    suggestions |-> <<>>]
              ELSE IF suggestions.outcome = "error"
              THEN [isValid |-> FALSE, message |-> ErrorMessage, suggestions |-> <<>>]
              ELSE [isValid |-> FALSE,
                    message |-> [kind |-> "invalid", level |-> level, name |-> name,
                                 scope |-> IF level \in {"region"} THEN <<>> ELSE scope1],
                    suggestions |-> suggestions.value],
          state |-> withLastIndex(IF isValid THEN names.lastIndex
                                  ELSE suggestions.lastIndex,
                                  readThrough(st, names.key, t))]

\* The body of an isValid function after its arguments were sanitized (q):
\* the first argument that is rejected ends the call
validateSanitized(level, name, scope1, records, index, st, t, q) ==
    IF q.name.outcome = "error"
    THEN Failure(ErrorMessage, [st EXCEPT !.lastIndex = q.name.lastIndex])
    ELSE IF q.scope1.outcome = "error"
    THEN Failure(ErrorMessage, [st EXCEPT !.lastIndex = q.scope1.lastIndex])
    ELSE IF q.scope2.outcome = "error"
    THEN Failure(ErrorMessage, [st EXCEPT !.lastIndex = q.scope2.lastIndex])
    ELSE validateAmong(level, name, scope1, index, st, t, q.name.value,
                       listAccessor(records, level, q.scope1.value, q.scope2.value,
                                    q.scope2.lastIndex))

\* isValidRegion, isValidDistrict, isValidCouncil, isValidChiefdom,
\* isValidSection and isValidTown on an initialized service, the clock reading
\* t; an argument left out is the empty string.  st holds lastIndex and the
\* cache; the value is the ValidationResult and the state left behind.
isValidLevel(level, name, scope1, scope2, records, index, st, t) ==
    validateSanitized(level, name, scope1, records, index, st, t,
                      sanitizeArguments(name, scope1, scope2, st.lastIndex))

\* The levels of a location in the order validateLocationHierarchy checks
\* them, and for each the condition under which it is checked and the scopes
\* it is checked in
Levels == <<"region", "district", "council", "chiefdom", "section", "town">>

Checked(location, level) ==
    CASE level \in {"region", "district", "town"} -> location[level] # <<>>
      [] level \in {"council", "chiefdom"} ->
            location[level] # <<>> /\ location.district # <<>>
      [] level = "section" -> location.section # <<>> /\ location.chiefdom # <<>>

Scope1(location, level) ==
    CASE level = "region" -> <<>>
      [] level = "district" -> location.region
      [] level \in {"council", "chiefdom"} -> location.district
      [] level \in {"section", "town"} -> location.chiefdom

Scope2(location, level) == IF level = "town" THEN location.section ELSE <<>>

\* Sub-validations that stop at the first failure
RECURSIVE subValidationsUntilFailure(_, _, _, _, _, _, _)
subValidationsUntilFailure(results, location, l, records, index, st, t) ==
    IF l > Len(Levels) THEN [results |-> results, state |-> st]
    ELSE IF ~Checked(location, Levels[l])
    THEN subValidationsUntilFailure(results, location, l + 1, records, index, st, t)
    ELSE LET v == isValidLevel(Levels[l], location[Levels[l]],
                               Scope1(location, Levels[l]), Scope2(location, Levels[l]),
                               records, index, st, t)
             added == Append(results, [level |-> Levels[l], result |-> v.result])
         IN IF ~v.result.isValid
            THEN [results |-> added, state |-> v.state]
            ELSE subValidationsUntilFailure(added, location, l + 1, records, index,
                                            v.state, t)

\* The sub-validations of validateLocationHierarchy from level l on: the
\* results of those that were run, in order, and the state left behind
RECURSIVE subValidations(_, _, _, _, _, _, _)
subValidations(results, location, l, records, index, st, t) ==
    IF l > Len(Levels) THEN [results |-> results, state |-> st]
    ELSE IF ~Checked(location, Levels[l])
    THEN subValidations(results, location, l + 1, records, index, st, t)
    ELSE LET v == isValidLevel(Levels[l], location[Levels[l]],
                               Scope1(location, Levels[l]), Scope2(location, Levels[l]),
                               records, index, st, t)
         IN subValidations(Append(results, [level |-> Levels[l], result |-> v.result]),
                           location, l + 1, records, index, v.state, t)

\* The ValidationResult validateLocationHierarchy makes of its sub-validations:
\* errors holds the message of each one that failed
hierarchyResult(subs) ==
    LET failed == SelectSeq(subs.results, LAMBDA r : ~r.result.isValid)
    IN [result |-> [isValid |-> Len(failed) = 0,
                    message |-> [i \in 1..Len(failed) |-> failed[i].result.message],
                    suggestions |-> <<>>],
        subs |-> subs.results,
        state |-> subs.state]

\* validateLocationHierarchy(location) on an initialized service: the message
\* is the list errors, which the code joins by '; '
validateLocationHierarchy(location, records, index, st, t) ==
    hierarchyResult(subValidations(<<>>, location, 1, records, index, st, t))

\* A ValidationService as constructed
VsFields ==
    /\ vsInitialized = FALSE
    /\ vsOp = [op |-> "none"]
    /\ vsResult = [isValid |-> FALSE]

\* initialize(csvData?) of the ValidationService
VsInitialize(csv, t1, t2) ==
    /\ vsOp' = [op |-> "initialize"]
    /\ UNCHANGED vsResult
    /\ IF vsInitialized
       THEN UNCHANGED <<vsInitialized, lsVars, rlVars, nzVars, saVars, sxVars>>
       ELSE /\ initializeCall(csv, t1, t2)
            /\ vsInitialized' = (sxOutcome' = "value")

\* ensureInitialized() -> initialize() -> searchService.initialize(): the
\* index and the state a validation then works on; ok is FALSE when
\* getStatistics throws because the LocationService has no data.
Ensured(t) ==
    IF vsInitialized
    THEN [ok |-> TRUE, index |-> searchIndex, state |-> Current]
    ELSE IF ~initialized
    THEN [ok |-> FALSE, index |-> searchIndex, state |-> Current]
    ELSE [ok |-> TRUE, index |-> buildSearchIndex(searchIndex, rawData),
          state |-> readThrough(readThrough(Current, "statistics", t), "query-{}", t)]

\* What a validation call leaves behind
Validated(op, e, v, subs, t) ==
    /\ vsOp' = op
    /\ vsResult' = [isValid |-> v.result.isValid, message |-> v.result.message,
                    suggestions |-> v.result.suggestions, subs |-> subs]
    /\ vsInitialized' = (vsInitialized \/ e.ok)
    /\ searchIndex' = e.index
    /\ lastIndex' = v.state.lastIndex
    /\ cache' = v.state.cache
    /\ cacheValues' = Kept(cacheValues, v.state.cache)
    /\ cacheAccessTimes' = v.state.times
    /\ everSet' = v.state.everSet
    /\ lastAccess' = v.state.lastAccess
    /\ now' = IF e.ok THEN t ELSE now
    /\ UNCHANGED <<initialized, rawData, lsOp, lsOutcome, lsQuery, lsResult, rlVars, nzVars,
                   saInput, saOutcome, sxOp, sxQuery, sxOptions, sxOutcome, sxResult>>

\* isValidRegion(name), isValidDistrict(name, regionName),
\* isValidCouncil(name, districtName), isValidChiefdom(name, districtName),
\* isValidSection(name, chiefdomName), isValidTown(name, chiefdomName, sectionName)
\* with every Date.now() of the call read as t
IsValid(level, name, scope1, scope2, t) ==
    \E e \in {Ensured(t)} :
    \E v \in {IF e.ok
               THEN isValidLevel(level, name, scope1, scope2, rawData, e.index, e.state, t)
               ELSE Failure(ErrorMessage, Current)} :
        Validated([op |-> "isValid", level |-> level, name |-> name,
                   scope1 |-> scope1, scope2 |-> scope2], e, v, <<>>, t)

\* validateLocationHierarchy(location) with every Date.now() of the call read as t
ValidateLocationHierarchy(location, t) ==
    \E e \in {Ensured(t)} :
    \E v \in {IF e.ok
               THEN validateLocationHierarchy(location, rawData, e.index, e.state, t)
               ELSE [result |-> [isValid |-> FALSE, message |-> <<ErrorMessage>>,
                                 suggestions |-> <<>>],
                     subs |-> <<>>, state |-> Current]} :
        Validated([op |-> "validateLocationHierarchy", location |-> location],
                  e, v, v.subs, t)

----------------------------------------------------------------------------
(* buildHierarchy (src/src/core/ExportService.ts) *)

\* The provinces built so far and the three Maps of buildHierarchy.  A Map
\* holds, for a key, the place in the tree of the node object it refers to.
\* The code fields of the nodes, derived from their names, are left out.
NoHierarchy ==
    [provinces |-> <<>>, provinceMap |-> EmptyMap, districtMap |-> EmptyMap,
     chiefdomMap |-> EmptyMap]

\* `${record.idregion}-${record.iddistrict}`
districtKey(record) == Str(record.idregion) \o "-" \o Str(record.iddistrict)

\* `${districtKey}-${record.idchiefdom}`
chiefdomKey(record) == districtKey(record) \o "-" \o Str(record.idchiefdom)

\* Create/get province
withProvince(h, record) ==
    IF Str(record.idregion) \in DOMAIN h.provinceMap THEN h
    ELSE [h EXCEPT
            !.provinces = Append(@, [name |-> record.idregion, districts |-> <<>>]),
            !.provinceMap = (Str(record.idregion) :> (Len(h.provinces) + 1)) @@ @]

\* Create/get district: a new district is pushed to the province of the record
withDistrict(h, record) ==
    IF districtKey(record) \in DOMAIN h.districtMap THEN h
    ELSE LET p == h.provinceMap[Str(record.idregion)] IN
         [h EXCEPT
            !.provinces[p].districts =
                Append(@, [name |-> record.iddistrict, province |-> record.idregion,
                           chiefdoms |-> <<>>]),
            !.districtMap =
                (districtKey(record) :> <<p, Len(h.provinces[p].districts) + 1>>) @@ @]

\* Create/get chiefdom: a new chiefdom is pushed to the district the Map
\* holds under districtKey
withChiefdom(h, record) ==
    IF chiefdomKey(record) \in DOMAIN h.chiefdomMap THEN h
    ELSE LET at == h.districtMap[districtKey(record)] IN
         [h EXCEPT
            !.provinces[at[1]].districts[at[2]].chiefdoms =
                Append(@, [name |-> record.idchiefdom, district |-> record.iddistrict,
                           province |-> record.idregion, towns |-> <<>>]),
            !.chiefdomMap =
                (chiefdomKey(record) :>
                    <<at[1], at[2],
                      Len(h.provinces[at[1]].districts[at[2]].chiefdoms) + 1>>) @@ @]

\* Create town: pushed to the chiefdom the Map holds under chiefdomKey
withTown(h, record) ==
    LET at == h.chiefdomMap[chiefdomKey(record)] IN
    [h EXCEPT
        !.provinces[at[1]].districts[at[2]].chiefdoms[at[3]].towns =
            Append(@, [name |-> record.idtown, chiefdom |-> record.idchiefdom,
                       district |-> record.iddistrict, province |-> record.idregion,
                       section |-> record.idsection, council |-> record.idcouncil])]

\* for (const record of records) { ... } from record i on
RECURSIVE forRecords(_, _, _)
forRecords(h, records, i) ==
    IF i > Len(records) THEN h
    ELSE forRecords(withTown(withChiefdom(withDistrict(withProvince(h, records[i]),
                                                       records[i]),
                                          records[i]),
                             records[i]),
                    records, i + 1)

\* buildHierarchy(records): Array.from(provinceMap.values())
buildHierarchy(records) == forRecords(NoHierarchy, records, 1).provinces

\* A call of buildHierarchy on the given records
BuildHierarchy(records) ==
    /\ lsQuery' = [op |-> "buildHierarchy", records |-> records]
    /\ lsResult' = [kind |-> "hierarchy", v |-> buildHierarchy(records)]
    /\ UNCHANGED <<initialized, rawData, cache, cacheAccessTimes, now, lsOp, lsOutcome,
                   everSet, lastAccess, cacheValues>>
    /\ UNCHANGED lsOthers

----------------------------------------------------------------------------
(* LocationService calls and the values they return *)

\* A returned or cached value: a list, a place, a record or null
Null == [kind |-> "null", v |-> <<>>]
ListOf(v) == [kind |-> "list", v |-> v]

\* Map.get(key) || [] followed by push(entry) and Map.set(key, existing)
pushToKey(index, key, entry) ==
    IF \E i \in 1..Len(index) : index[i].key = key
    THEN [i \in 1..Len(index) |->
            IF index[i].key = key
            THEN [index[i] EXCEPT !.entries = Append(@, entry)]
            ELSE index[i]]
    ELSE Append(index, [key |-> key, entries |-> <<entry>>])

\* words.forEach(word => { if (word.length > 2) ... push(partial entry) })
RECURSIVE pushWords(_, _, _)
pushWords(index, words, partialEntry) ==
    IF words = <<>> THEN index
    ELSE pushWords(IF Len(Head(words)) > 2
                   THEN pushToKey(index, Head(words), partialEntry)
                   ELSE index,
                   Tail(words), partialEntry)

entryOf(name, type, record, partialMatch) ==
    [name |-> name, type |-> type, normalized |-> normalize(name), record |-> record,
     partialMatch |-> partialMatch]

\* addToIndex(item, type, record) of createSearchIndex; partialMatch FALSE
\* stands for the unset flag
indexItem(index, name, type, record) ==
    IF Len(split(normalize(name))) > 1
    THEN pushWords(pushToKey(index, normalize(name), entryOf(name, type, record, FALSE)),
                   split(normalize(name)), entryOf(name, type, record, TRUE))
    ELSE pushToKey(index, normalize(name), entryOf(name, type, record, FALSE))

RECURSIVE indexTowns(_, _, _, _)
indexTowns(index, towns, i, chiefdomRecord) ==
    IF i > Len(towns) THEN index
    ELSE indexTowns(indexItem(index, towns[i].name, "town",
                              [chiefdomRecord EXCEPT !.idtown = towns[i].name,
                                                     !.idsection = towns[i].section,
                                                     !.idcouncil = towns[i].council]),
                    towns, i + 1, chiefdomRecord)

RECURSIVE indexChiefdoms(_, _, _, _)
indexChiefdoms(index, chiefdoms, i, districtRecord) ==
    IF i > Len(chiefdoms) THEN index
    ELSE indexChiefdoms(
             indexTowns(indexItem(index, chiefdoms[i].name, "chiefdom",
                                  [districtRecord EXCEPT !.idchiefdom = chiefdoms[i].name]),
                        chiefdoms[i].towns, 1,
                        [districtRecord EXCEPT !.idchiefdom = chiefdoms[i].name]),
             chiefdoms, i + 1, districtRecord)

RECURSIVE indexDistricts(_, _, _, _)
indexDistricts(index, districts, i, provinceRecord) ==
    IF i > Len(districts) THEN index
    ELSE indexDistricts(
             indexChiefdoms(indexItem(index, districts[i].name, "district",
                                      [provinceRecord EXCEPT !.iddistrict = districts[i].name]),
                            districts[i].chiefdoms, 1,
                            [provinceRecord EXCEPT !.iddistrict = districts[i].name]),
             districts, i + 1, provinceRecord)

RECURSIVE indexProvinces(_, _, _)
indexProvinces(index, data, i) ==
    IF i > Len(data) THEN index
    ELSE indexProvinces(
             indexDistricts(indexItem(index, data[i].name, "province",
                                      Rec(data[i].name, <<>>, <<>>, <<>>, <<>>, <<>>)),
                            data[i].districts, 1,
                            Rec(data[i].name, <<>>, <<>>, <<>>, <<>>, <<>>)),
             data, i + 1)

\* createSearchIndex(data)
createSearchIndex(data) == indexProvinces(<<>>, data, 1)

\* The PlaceDetails of an index entry; the code `SL-${TYPE}-${normalize(name)}`
\* is kept as the pair it is made of
placeOf(entry) ==
    [name |-> entry.name, type |-> entry.type,
     code |-> <<entry.type, normalize(entry.name)>>,
     province |-> entry.record.idregion, district |-> entry.record.iddistrict,
     chiefdom |-> entry.record.idchiefdom]

\* for (const word of queryWords) { push(...partial entries); if (length >= limit) break }
RECURSIVE morePlaces(_, _, _, _)
morePlaces(found, index, words, limit) ==
    IF words = <<>> THEN found
    ELSE IF Len(found \o SelectSeq(IndexGet(index, Head(words)),
                                   LAMBDA e : e.partialMatch)) >= limit
    THEN found \o SelectSeq(IndexGet(index, Head(words)), LAMBDA e : e.partialMatch)
    ELSE morePlaces(found \o SelectSeq(IndexGet(index, Head(words)),
                                       LAMBDA e : e.partialMatch),
                    index, Tail(words), limit)

\* Array.from(new Map(results.map(r => [r.code, r])).values()): a code keeps
\* the position of its first result and the value of its last
uniqueByCode(results) ==
    LET firsts == SelectSeq([i \in 1..Len(results) |-> i],
                            LAMBDA i : \A j \in 1..(i - 1) : results[j].code # results[i].code)
    IN [n \in 1..Len(firsts) |->
          results[CHOOSE j \in 1..Len(results) :
                     /\ results[j].code = results[firsts[n]].code
                     /\ \A l \in (j + 1)..Len(results) :
                           results[l].code # results[j].code]]

\* What search computes for a normalized query when nothing is cached
foundPlaces(index, normalized, limit, exact) ==
    IF Len(exact) < limit
    THEN morePlaces(exact, index,
                    SelectSeq(split(normalized), LAMBDA word : Len(word) > 1), limit)
    ELSE exact

computeSearch(index, normalized, limit) ==
    LET results == foundPlaces(index, normalized, limit,
                               slice(IndexGet(index, normalized), limit))
    IN slice(uniqueByCode([i \in 1..Len(results) |-> placeOf(results[i])]), limit)

\* The service state a call works on: lastIndex of the shared patterns and
\* the cache with its values
CurrentValues ==
    [lastIndex |-> lastIndex, cache |-> cache, times |-> cacheAccessTimes,
     everSet |-> everSet, lastAccess |-> lastAccess, values |-> cacheValues]

\* setToCache(key, value) done: the state and the value returned
stored(st, k, fresh, t, set) ==
    [outcome |-> "value", value |-> fresh,
     state |-> [st EXCEPT !.cache = set.cache, !.times = set.times,
                          !.everSet = @ \cup {k},
                          !.lastAccess = (k :> t) @@ @,
                          !.values = Kept((k :> fresh) @@ @, set.cache)]]

\* const cached = getFromCache(key); if (cached) return cached;
\* ... setToCache(key, fresh); return fresh -- every clock reading being t
through(st, k, fresh, t) ==
    IF k \in st.cache /\ st.values[k].kind # "null"
    THEN [outcome |-> "value", value |-> st.values[k],
          state |-> [st EXCEPT !.times = MapSet(@, k, t),
                               !.lastAccess = (k :> t) @@ @]]
    ELSE stored(st, k, fresh, t,
                setToCache(st.cache,
                           IF k \in st.cache THEN MapSet(st.times, k, t) ELSE st.times,
                           k, t, t))

Thrown(st, li) ==
    [outcome |-> "error", value |-> Null, state |-> [st EXCEPT !.lastIndex = li]]

\* search(query, limit) after SecurityValidator.sanitize
searchSanitized(index, limit, st, t, sanitized) ==
    IF sanitized.outcome = "error" THEN Thrown(st, sanitized.lastIndex)
    ELSE through([st EXCEPT !.lastIndex = sanitized.lastIndex],
                 "search-" \o Str(normalize(sanitized.value)) \o "-" \o ToString(limit),
                 ListOf(computeSearch(index, normalize(sanitized.value), limit)), t)

\* LocationService.search(query, limit)
searchPlaces(index, query, limit, st, t) ==
    IF query = <<>> \/ Len(trim(query)) < 2
    THEN [outcome |-> "value", value |-> ListOf(<<>>), state |-> st]
    ELSE searchSanitized(index, limit, st, t, sanitize(query, st.lastIndex))

\* rawData.find(record => normalize(record.idtown) === normalized || ...)
ExactMatches(records, normalized) ==
    SelectSeq(records, LAMBDA r : \/ normalize(r.idtown) = normalized
                                  \/ normalize(r.idchiefdom) = normalized
                                  \/ normalize(r.iddistrict) = normalized
                                  \/ normalize(r.idregion) = normalized)

placeOfRecord(r) ==
    [kind |-> "place",
     v |-> [name |-> r.idtown, type |-> "town", code |-> <<"town", normalize(r.idtown)>>,
            province |-> r.idregion, district |-> r.iddistrict, chiefdom |-> r.idchiefdom]]

\* The fuzzy branch of findPlace: the first result of search(sanitized, 1),
\* or null, is cached and returned
fuzzyPlace(k, t, searched) ==
    IF searched.outcome = "error" THEN searched
    ELSE stored(searched.state, k,
                IF Len(searched.value.v) > 0
                THEN [kind |-> "place", v |-> searched.value.v[1]]
                ELSE Null,
                t,
                setToCache(searched.state.cache, searched.state.times, k, t, t))

\* findPlace(name) after SecurityValidator.sanitize, st being the state the
\* getFromCache of the call left
placeSanitized(records, index, st, t, k, sanitized) ==
    IF k \in st.cache /\ st.values[k].kind # "null"
    THEN through(st, k, Null, t)
    ELSE IF ExactMatches(records, normalize(sanitized)) # <<>>
    THEN through(st, k, placeOfRecord(ExactMatches(records, normalize(sanitized))[1]), t)
    ELSE fuzzyPlace(k, t,
                    searchPlaces(index, sanitized, 1,
                                 IF k \in st.cache
                                 THEN [st EXCEPT !.times = MapSet(@, k, t),
                                                 !.lastAccess = (k :> t) @@ @]
                                 ELSE st,
                                 t))

\* LocationService.findPlace(name)
findPlaceSanitized(records, index, st, t, sanitized) ==
    IF sanitized.outcome = "error" THEN Thrown(st, sanitized.lastIndex)
    ELSE placeSanitized(records, index, [st EXCEPT !.lastIndex = sanitized.lastIndex], t,
                        "place-" \o Str(normalize(sanitized.value)), sanitized.value)

findPlace(records, index, name, st, t) ==
    findPlaceSanitized(records, index, st, t, sanitize(name, st.lastIndex))

\* LocationService.getLocationHierarchy(townName)
hierarchySanitized(records, st, t, sanitized) ==
    IF sanitized.outcome = "error" THEN Thrown(st, sanitized.lastIndex)
    ELSE through([st EXCEPT !.lastIndex = sanitized.lastIndex],
                 "hierarchy-" \o Str(normalize(sanitized.value)),
                 IF \E i \in 1..Len(records) :
                        normalize(records[i].idtown) = normalize(sanitized.value)
                 THEN [kind |-> "record",
                       v |-> records[CHOOSE i \in 1..Len(records) :
                                /\ normalize(records[i].idtown) = normalize(sanitized.value)
                                /\ \A j \in 1..(i - 1) :
                                      normalize(records[j].idtown)
                                          # normalize(sanitized.value)]]
                 ELSE Null,
                 t)

getLocationHierarchy(records, townName, st, t) ==
    hierarchySanitized(records, st, t, sanitize(townName, st.lastIndex))

\* getProvinces, getDistricts, getCouncils, getChiefdoms, getSections and
\* getTowns: the list of listAccessor read through the cache
listThrough(st, t, names) ==
    IF names.outcome = "error" THEN Thrown(st, names.lastIndex)
    ELSE through([st EXCEPT !.lastIndex = names.lastIndex], names.key,
                 ListOf(names.value), t)

getList(records, level, scope1, scope2, st, t) ==
    listThrough(st, t, listAccessor(records, level, scope1, scope2, st.lastIndex))

\* A call of the LocationService: the operation and its arguments
Request(op, a, b, limit) == [op |-> op, a |-> a, b |-> b, limit |-> limit]

\* The outcome of a request on the records, from the state st, at time t
answer(request, records, st, t) ==
    CASE request.op = "search" ->
            searchPlaces(createSearchIndex(buildHierarchy(records)),
                         request.a, request.limit, st, t)
      [] request.op = "findPlace" ->
            findPlace(records, createSearchIndex(buildHierarchy(records)),
                      request.a, st, t)
      [] request.op = "getLocationHierarchy" ->
            getLocationHierarchy(records, request.a, st, t)
      [] OTHER -> getList(records, request.op, request.a, request.b, st, t)

\* One call of an initialized LocationService, every Date.now() read as t
LsCall(request, t) ==
    /\ \E answered \in {IF initialized
                        THEN answer(request, rawData, CurrentValues, t)
                        ELSE Thrown(CurrentValues, lastIndex)} :
        /\ lsQuery' = request
        /\ lsResult' = answered.value
        /\ lsOutcome' = answered.outcome
        /\ lastIndex' = answered.state.lastIndex
        /\ cache' = answered.state.cache
        /\ cacheAccessTimes' = answered.state.times
        /\ everSet' = answered.state.everSet
        /\ lastAccess' = answered.state.lastAccess
        /\ cacheValues' = answered.state.values
    /\ lsOp' = "accessor"
    /\ now' = t
    /\ UNCHANGED <<initialized, rawData, saInput, saOutcome, rlVars, nzVars, sxVars, vsVars>>

----------------------------------------------------------------------------
(* Specifications *)

LsInit == LsFields /\ RlFields /\ rlMax = 0 /\ NzFields /\ SaFields /\ SxFields /\ VsFields

LsNext ==
    \/ \E csv \in {InvalidCsv, CsvOf(SmallData)} : InitializeWithData(csv)
    \/ \E k \in CacheKeys : AccessorUninitialized(k)
    \/ \E k \in CacheKeys : AccessorHit(k)
    \/ \E k \in CacheKeys : AccessorMiss(k)
    \/ \E k \in CacheKeys : AccessorNullHit(k)
    \/ ClearCache

SpecLocation == LsInit /\ [][LsNext]_vars

LimiterInit == LsFields /\ RlFields /\ rlMax \in 0..MaxN /\ NzFields /\ SaFields /\ SxFields /\ VsFields

LimiterNext == \E c \in Clients : CheckRateLimit(c)

SpecLimiter == LimiterInit /\ [][LimiterNext]_vars

NormalizeInit ==
    /\ LsFields /\ RlFields /\ rlMax = 0 /\ SaFields /\ SxFields /\ VsFields
    /\ nzIn \in StringsOver(Chars, MaxStrLen)
    /\ nzOut = <<>>
    /\ csIn = <<>>
    /\ csOut = <<>>

NormalizeNext == Normalize \/ NormalizeAgain

SpecNormalize == NormalizeInit /\ [][NormalizeNext]_vars

SanitizeInit == LsFields /\ RlFields /\ rlMax = 0 /\ NzFields /\ SaFields /\ SxFields /\ VsFields

\* Inputs of the sanitizer: a letter, whitespace, a deleted character and the
\* characters of the two patterns
SanitizeInputs == StringsOver({"a", " ", ";", "-", "#", "."}, MaxInputLen)

SanitizeNext ==
    \/ \E input \in SanitizeInputs : Sanitize(input)
    \/ \E query \in SanitizeInputs : SanitizeSearchQuery(query)

SpecSanitize == SanitizeInit /\ [][SanitizeNext]_vars

\* SearchService under load: both operation classes, both clients, the calls
\* entered in the history
RateQueries == {<<"a", "b">>}

SearchRateInit ==
    LsFields /\ RlFields /\ rlMax = 0 /\ NzFields /\ SaFields /\ SxFields /\ VsFields

SearchRateNext ==
    \/ \E q \in RateQueries : \E c \in Clients : \E t \in rlNow..MaxRlClock :
          Search(q, DefaultOptions, c, t, TRUE)
    \/ \E q \in RateQueries : \E c \in Clients : \E t \in rlNow..MaxRlClock :
          Autocomplete(q, DefaultAutocompleteLimit, c, t, TRUE)
    \/ ClearRateLimit

SpecSearchRate == SearchRateInit /\ [][SearchRateNext]_vars

\* The package object: search and autocomplete called by the clients with
\* their clientId
PackageInit ==
    LsFields /\ RlFields /\ rlMax = 0 /\ NzFields /\ SaFields /\ SxFields /\ VsFields

PackageNext ==
    \/ \E q \in RateQueries : \E c \in Clients : \E t \in rlNow..MaxRlClock :
          PackageSearch(q, DefaultOptions, c, t)
    \/ \E q \in RateQueries : \E c \in Clients : \E t \in rlNow..MaxRlClock :
          PackageAutocomplete(q, c, DefaultAutocompleteLimit, t)

SpecPackage == PackageInit /\ [][PackageNext]_vars

\* ValidationService over the three records.  The calls ask about names of
\* the records in and out of their scope, a name of one character, a name no
\* record has and a name with a threat pattern; between two calls the clock
\* advances.
LocationOf(r) ==
    [region |-> r.idregion, district |-> r.iddistrict, council |-> r.idcouncil,
     chiefdom |-> r.idchiefdom, section |-> r.idsection, town |-> r.idtown]

Only(location, levels) ==
    [l \in Range(Levels) |-> IF l \in levels THEN location[l] ELSE <<>>]

NoName == <<"B", "b", "a">>
Threat == <<"a", "#">>

\* level, name, first scope, second scope
ValidationCalls ==
    { <<"region", <<"A", "b">>, <<>>, <<>>>>,
      <<"district", <<"B", "b">>, <<"A", "b">>, <<>>>>,
      <<"district", <<"A", "b">>, <<"A", "b">>, <<>>>>,
      <<"district", <<"a", "b">>, <<>>, <<>>>>,
      <<"council", <<"B", "a">>, <<"B", "a">>, <<>>>>,
      <<"chiefdom", Threat, <<"B", "a">>, <<>>>>,
      <<"chiefdom", NoName, <<"B", "a">>, <<>>>>,
      <<"section", <<"B">>, <<"A", "-", "B">>, <<>>>>,
      <<"town", <<"B", "a", "a">>, <<"A", "b", " ", "B", "a", "b">>, <<"B", "a", "b">>>>,
      <<"town", <<"B", "a", ".">>, <<"A", "-", "B">>, <<>>>> }

Locations ==
    { LocationOf(Records[1]),
      LocationOf(Records[2]),
      LocationOf(Records[3]),
      [LocationOf(Records[1]) EXCEPT !.district = <<"B", "b">>],
      [LocationOf(Records[1]) EXCEPT !.region = Threat, !.town = NoName],
      [LocationOf(Records[1]) EXCEPT !.district = NoName, !.section = NoName],
      Only([LocationOf(Records[1]) EXCEPT !.chiefdom = NoName], {"chiefdom"}),
      Only([LocationOf(Records[1]) EXCEPT !.section = NoName], {"region", "section"}),
      Only([LocationOf(Records[1]) EXCEPT !.town = NoName], {"town"}),
      Only(LocationOf(Records[1]), {"district", "chiefdom", "town"}) }

ValidationInit ==
    LsFields /\ RlFields /\ rlMax = 0 /\ NzFields /\ SaFields /\ SxFields /\ VsFields

ValidationNext ==
    \/ \E csv \in {AbsentCsv, CsvOf(Records)} : VsInitialize(csv, now, now)
    \/ InitializeWithData(CsvOf(Records))
    \/ \E c \in ValidationCalls : \E t \in (now + 1)..MaxClock :
          IsValid(c[1], c[2], c[3], c[4], t)
    \/ \E location \in Locations : \E t \in (now + 1)..MaxClock :
          ValidateLocationHierarchy(location, t)

SpecValidation == ValidationInit /\ [][ValidationNext]_vars

\* SearchService asked with queries of every shape: empty, blank, of one
\* character, shrinking when sanitized, with a threat pattern, prefixes and
\* names of the records; search with several thresholds, suggestions with
\* several limits
EdgeQueries ==
    { <<>>, <<" ">>, <<" ", " ">>, <<"a">>, <<"a", ";">>, <<"a", "#">>,
      <<"a", "b">>, <<"b", "a">>, <<"b", " ", "b">>, <<"a", "b", " ", "b", "a", "b">> }

MinScores == {<<3, 10>>, <<8, 10>>, <<2, 1>>}

SuggestionLimits == {1, 2, 5}

QueriesInit ==
    LsFields /\ RlFields /\ rlMax = 0 /\ NzFields /\ SaFields /\ SxFields /\ VsFields

QueriesNext ==
    \/ Initialize(CsvOf(Records), now, now)
    \/ \E q \in EdgeQueries : \E m \in MinScores :
       \E t \in {rlNow, MaxRlClock} :
          Search(q, [DefaultOptions EXCEPT !.minScore = m], "anonymous", t, FALSE)
    \/ \E q \in EdgeQueries : \E t \in {rlNow, MaxRlClock} :
          Autocomplete(q, DefaultAutocompleteLimit, "anonymous", t, FALSE)
    \/ \E q \in EdgeQueries : \E type \in {"", "chiefdom"} : \E limit \in SuggestionLimits :
          GetSuggestions(q, type, limit)

SpecQueries == QueriesInit /\ [][QueriesNext]_vars

\* SearchService over an index: the service is initialized with a dataset and
\* searched with the normalized names of the records, at clock readings one
\* window apart
IndexQueries ==
    {normalize(e.name) : e \in EntitiesOf(Records)}

SearchIndexInit ==
    LsFields /\ RlFields /\ rlMax = 0 /\ NzFields /\ SaFields /\ SxFields /\ VsFields

SearchIndexNext ==
    \/ \E csv \in {InvalidCsv, AbsentCsv} \cup {CsvOf(d) : d \in Datasets} :
          \E t \in {now, MaxClock} : Initialize(csv, now, t)
    \/ \E q \in IndexQueries : \E t \in {x \in rlNow..MaxRlClock : x % windowMs = 0} :
          Search(q, DefaultOptions, "anonymous", t, FALSE)
    \/ ClearRateLimit

SpecSearchIndex == SearchIndexInit /\ [][SearchIndexNext]_vars

\* SearchService asked to complete prefixes: the service is initialized on a
\* dataset and autocomplete is called with every prefix, of 2 characters or
\* more, of the normalized names of the records
Prefixes ==
    UNION { {SubSeq(n, 1, k) : k \in 2..Len(n)} : n \in IndexQueries }

PrefixInit ==
    LsFields /\ RlFields /\ rlMax = 0 /\ NzFields /\ SaFields /\ SxFields /\ VsFields

PrefixNext ==
    \/ \E csv \in {CsvOf(d) : d \in Datasets \cup {ManyNames}} : Initialize(csv, now, now)
    \/ \E q \in Prefixes : \E t \in {rlNow, MaxRlClock} :
          Autocomplete(q, DefaultAutocompleteLimit, "anonymous", t, FALSE)
    \/ ClearRateLimit

SpecPrefix == PrefixInit /\ [][PrefixNext]_vars

\* buildHierarchy on lists of records whose names are plain or hold a hyphen
MaxHierarchyRecords == 2

HierarchyRecords ==
    { Rec(region, district, <<>>, chiefdom, <<>>, town) :
        region \in {<<"A">>, <<"A", "-", "B">>},
        district \in {<<"B">>, <<"B", "-", "B">>},
        chiefdom \in {<<"B", "a">>, <<"A", "b">>},
        town \in {<<"A", "a">>, <<"B", "b">>} }

HierarchyInit ==
    LsFields /\ RlFields /\ rlMax = 0 /\ NzFields /\ SaFields /\ SxFields /\ VsFields

HierarchyNext ==
    \E n \in 1..MaxHierarchyRecords : \E records \in [1..n -> HierarchyRecords] :
        BuildHierarchy(records)

SpecHierarchy == HierarchyInit /\ [][HierarchyNext]_vars


\* Place names asked of findPlace: a region that is also a district (in
\* another spelling), a town, a section and the name of nothing
PlaceNames ==
    {<<"a", "b">>, <<"B", "a", "a">>, <<"B", "a", "b">>, <<"b", "b">>}

PlacesInit == LsInit

PlacesNext ==
    \/ \E d \in {Records, SubSeq(Records, 2, 3)} : InitializeWithData(CsvOf(d))
    \/ \E name \in PlaceNames : \E t \in {now, MaxClock} :
          LsCall(Request("findPlace", name, <<>>, 0), t)
    \/ ClearCache

SpecPlaces == PlacesInit /\ [][PlacesNext]_vars

\* Repeated initialization of the three services, with searches in between
InitializeCsvs == {InvalidCsv, CsvOf(SmallData), CsvOf(Records)}

InitializeInit == LsInit

InitializeNext ==
    \/ \E csv \in InitializeCsvs : InitializeWithData(csv)
    \/ \E csv \in InitializeCsvs \cup {AbsentCsv} : \E t \in {now, MaxClock} :
          Initialize(csv, now, t)
    \/ \E csv \in InitializeCsvs \cup {AbsentCsv} : \E t \in {now, MaxClock} :
          VsInitialize(csv, now, t)
    \/ \E q \in {<<"a", "b">>, <<"b", "b">>} : \E t \in {rlNow, MaxRlClock} :
          Search(q, DefaultOptions, "anonymous", t, FALSE)

SpecInitialize == InitializeInit /\ [][InitializeNext]_vars

\* calculateSimilarity on every pair of strings of up to MaxSimLen characters
\* over a letter in both cases, another letter and the space
SimilarityChars == {"a", "b", "A", " "}

SimilarityInit ==
    /\ LsFields /\ RlFields /\ rlMax = 0 /\ SaFields /\ SxFields /\ VsFields
    /\ nzIn = <<>>
    /\ nzOut = <<>>
    /\ csIn \in StringsOver(SimilarityChars, MaxSimLen) \X StringsOver(SimilarityChars, MaxSimLen)
    /\ csOut = <<>>

SimilarityNext == CalculateSimilarity \/ CalculateSwapped \/ CalculateSelf

SpecSimilarity == SimilarityInit /\ [][SimilarityNext]_vars

\* Calls of the LocationService accessors: the towns of a chiefdom and
\* section, the towns of a chiefdom whose name spells out a section, a search,
\* a place and the hierarchy of a town
SectionWord == <<"-", "s", "e", "c", "t", "i", "o", "n", "-">>

CacheRequests ==
    {Request("town", <<"A", "-", "B">>, <<"B">>, 0),
     Request("town", <<"a", "-", "b">> \o SectionWord \o <<"b">>, <<>>, 0),
     Request("search", <<"a", "b">>, <<>>, DefaultSearchLimit),
     Request("findPlace", <<"A", "b">>, <<>>, 0),
     Request("getLocationHierarchy", <<"B", "a", "a">>, <<>>, 0)}

CacheInit == LsInit

CacheNext ==
    \/ InitializeWithData(CsvOf(Records))
    \/ \E request \in CacheRequests : \E t \in {now, MaxClock} : LsCall(request, t)
    \/ ClearCache

SpecCache == CacheInit /\ [][CacheNext]_vars

----------------------------------------------------------------------------
(* Claims about the LocationService cache and initialization *)

\* C1: the number of keys held in the cache never exceeds maxCacheSize.
C1_CacheBounded == Cardinality(cache) <= maxCacheSize

\* C6: once maxCacheSize + k distinct keys have been set into an initially
\* empty cache, the cache holds exactly maxCacheSize keys and every absent key
\* was accessed no later than every key still held.
C6_EvictsLeastRecent ==
    Cardinality(everSet) >= maxCacheSize =>
        /\ Cardinality(cache) = maxCacheSize
        /\ \A a \in everSet \ cache : \A p \in cache :
               lastAccess[a] <= lastAccess[p]

\* C10: an accessor called on a service that was never initialized loads the
\* data and returns a result instead of failing.
C10_LazyLoad ==
    (lsOp = "accessor" /\ ~initialized) => lsOutcome = "value"


----------------------------------------------------------------------------
(* Claims about checkRateLimit *)

\* The calls of c before call i that were admitted
AdmittedBefore(c, i) == {j \in 1..(i - 1) : rlLog[c][j].allowed}

\* C2: of the calls of one client that fall inside one window, exactly the
\* first maxRequests are allowed, for every maxRequests.
C2_FirstNAllowed ==
    \A c \in Clients : \A i \in 1..Len(rlLog[c]) :
        (rlLog[c][i].t - rlLog[c][1].t < windowMs) =>
            (rlLog[c][i].allowed <=> i <= rlMax)

\* C8 as stated: a call made more than windowMs after every admitted call of
\* the client is allowed, whatever maxRequests is.
C8_AllowedAfterWindow ==
    \A c \in Clients : \A i \in 1..Len(rlLog[c]) :
        (\A j \in AdmittedBefore(c, i) : rlLog[c][i].t - rlLog[c][j].t > windowMs)
            => rlLog[c][i].allowed

\* C8 amended: when maxRequests >= 1, a call made more than windowMs after
\* every admitted call of the client is allowed.
C8_AllowedAfterWindowPositive ==
    rlMax >= 1 => C8_AllowedAfterWindow

\* C8 witness: a client was denied and, after the window had passed, allowed.
C8_Witness ==
    /\ rlMax >= 1
    /\ \E c \in Clients : \E i \in 2..Len(rlLog[c]) :
        /\ ~rlLog[c][i - 1].allowed
        /\ rlLog[c][i].allowed
        /\ \A j \in AdmittedBefore(c, i) : rlLog[c][i].t - rlLog[c][j].t > windowMs

\* C9: a denied call leaves the rate-limit map unchanged.
C9_DeniedCallNoEffect ==
    [][\A c \in Clients :
          (Len(rlLog'[c]) > Len(rlLog[c]) /\ ~rlLog'[c][Len(rlLog'[c])].allowed)
              => rateLimit' = rateLimit]_vars

\* C9 witness: the last call of a client was denied, its window being full.
C9_Witness ==
    /\ rlMax >= 1
    /\ \E c \in Clients :
        /\ Len(rlLog[c]) > 0
        /\ ~rlLog[c][Len(rlLog[c])].allowed
        /\ Len(rateLimit[c]) = rlMax


----------------------------------------------------------------------------
(* Claims about normalize *)

\* C7: normalize(normalize(s)) = normalize(s) for every string s.
C7_NormalizeIdempotent ==
    Len(nzOut) = 2 => nzOut[2] = nzOut[1]


----------------------------------------------------------------------------
(* Claims about sanitize *)

\* The input contains a blocked pattern or an SQL-injection pattern
ContainsThreat(s) ==
    \E p \in Patterns : \E i \in 1..Len(s) : MatchLen(p, s, i) > 0

\* C5: every call whose input contains a blocked or SQL-injection pattern is
\* rejected with an error, whatever the earlier calls received.
C5_ThreatAlwaysRejected ==
    (saOutcome # "none" /\ ContainsThreat(saInput)) => saOutcome = "error"

----------------------------------------------------------------------------
(* Claims about SearchService *)

\* The quota checkRateLimit is called with for a class of operation
ClassMax(class) == IF class = "search" THEN SearchMax ELSE AutocompleteMax

\* The earlier calls of client c, of the class of its i-th call, that were
\* admitted less than a window before that call
AdmittedInClass(c, i) ==
    {j \in 1..(i - 1) :
        /\ rlLog[c][j].class = rlLog[c][i].class
        /\ rlLog[c][j].allowed
        /\ rlLog[c][i].t - rlLog[c][j].t < windowMs}

\* C3: search and autocomplete are limited independently: a call of a client
\* is admitted exactly when fewer calls of the same class of that client than
\* the quota of the class were admitted within the window before it, whatever
\* calls of the other class were made.
C3_ClassesIndependent ==
    \A c \in Clients : \A i \in 1..Len(rlLog[c]) :
        rlLog[c][i].allowed <=>
            Cardinality(AdmittedInClass(c, i)) < ClassMax(rlLog[c][i].class)

\* C4: an admitted search, with default options, for the normalized form of
\* a non-empty entity name of the indexed records returns a result for that
\* entity with score 1.0.
C4_SearchRoundTrip ==
    (sxOp = "search" /\ sxOutcome # "rateLimited" /\ sxOptions = DefaultOptions
        /\ searchIndex # <<>>) =>
        \A e \in EntitiesOf(rawData) :
            normalize(e.name) = sxQuery =>
                /\ sxOutcome = "value"
                /\ \E i \in 1..Len(sxResult) :
                      /\ sxResult[i].name = trim(e.name)
                      /\ sxResult[i].type = e.type
                      /\ ScoreEq(sxResult[i].score, One)

\* The earlier calls of client c, of either class, that were admitted less
\* than a window before its i-th call
AdmittedOwn(c, i) ==
    {j \in 1..(i - 1) :
        rlLog[c][j].allowed /\ rlLog[c][i].t - rlLog[c][j].t < windowMs}

\* C11: the search of the package is limited per clientId: a search made
\* under a clientId is admitted whenever fewer calls than the search quota
\* were admitted under that same clientId within the window before it, whatever
\* was called under other clientIds.
C11_PerClientId ==
    \A c \in Clients : \A i \in 1..Len(rlLog[c]) :
        (rlLog[c][i].class = "search" /\ Cardinality(AdmittedOwn(c, i)) < SearchMax)
            => rlLog[c][i].allowed

----------------------------------------------------------------------------
(* Claims about ValidationService *)

FieldOf(level) == "id" \o level

\* The field a level is scoped by
ScopeFieldOf(level) ==
    CASE level = "district" -> "idregion"
      [] level \in {"council", "chiefdom"} -> "iddistrict"
      [] level \in {"section", "town"} -> "idchiefdom"
      [] level = "region" -> "idregion"

\* Some record has the name at the level within the scopes given, all names
\* compared in normalized form
Member(level, name, scope1, scope2) ==
    \E i \in 1..Len(rawData) :
        /\ normalize(rawData[i][FieldOf(level)]) = normalize(name)
        /\ scope1 # <<>> =>
              normalize(rawData[i][ScopeFieldOf(level)]) = normalize(scope1)
        /\ scope2 # <<>> => normalize(rawData[i].idsection) = normalize(scope2)

\* C12: a validator of one level answers isValid true exactly when some record
\* has the candidate name at that level within the scope given, names compared
\* in normalized form.
C12_ValidIffMember ==
    (vsOp.op = "isValid" /\ vsInitialized) =>
        (vsResult.isValid <=> Member(vsOp.level, vsOp.name, vsOp.scope1, vsOp.scope2))

\* Some record has the name at the level
Exists(level, name) ==
    \E i \in 1..Len(rawData) : normalize(rawData[i][FieldOf(level)]) = normalize(name)

\* C13: validateLocationHierarchy answers isValid false whenever a level that
\* is supplied names no existing entity of that level, whether or not the
\* level above it is supplied.
C13_EverySuppliedLevelChecked ==
    (vsOp.op = "validateLocationHierarchy" /\ vsInitialized) =>
        \A l \in Range(Levels) :
            (vsOp.location[l] # <<>> /\ ~Exists(l, vsOp.location[l]))
                => ~vsResult.isValid

\* C14: on an initialized service validateLocationHierarchy runs the
\* sub-validation of every level its conditions select, in level order, its
\* message lists the message of each failing sub-validation in that order, and
\* isValid is true exactly when none of them failed.
C14_AllFailuresAggregated ==
    (vsOp.op = "validateLocationHierarchy" /\ vsInitialized) =>
        LET failed == SelectSeq(vsResult.subs, LAMBDA r : ~r.result.isValid) IN
        /\ [i \in 1..Len(vsResult.subs) |-> vsResult.subs[i].level]
              = SelectSeq(Levels, LAMBDA l : Checked(vsOp.location, l))
        /\ vsResult.message = [i \in 1..Len(failed) |-> failed[i].result.message]
        /\ vsResult.isValid <=> Len(failed) = 0

\* A hierarchy validation in which two sub-validations failed, with a
\* sub-validation run after the first failure
C14_Witness ==
    /\ vsOp.op = "validateLocationHierarchy"
    /\ vsInitialized
    /\ Len(vsResult.message) >= 2
    /\ \E i \in 1..Len(vsResult.subs) : \E j \in (i + 1)..Len(vsResult.subs) :
          ~vsResult.subs[i].result.isValid /\ vsResult.subs[j].result.isValid

----------------------------------------------------------------------------
(* Claims about the queries of SearchService *)

\* What sanitize leaves of a string it accepts
SanitizedForm(q) == trim(collapseWhitespace(removeDangerous(removeTags(q))))

IsBlank(q) == \A i \in 1..Len(q) : IsSpace(q[i])

\* C15: an admitted autocomplete fails with an error for every query whose
\* sanitized form has fewer than 2 characters; it returns nothing for it.
C15_AutocompleteShortFails ==
    (sxOp = "autocomplete" /\ sxOutcome # "rateLimited" /\ Len(SanitizedForm(sxQuery)) < 2)
        => sxOutcome = "error"

\* C16: an admitted search returns an empty result and raises no error for
\* every query that is empty or made of whitespace only.
C16_SearchBlankEmpty ==
    (sxOp = "search" /\ sxOutcome # "rateLimited" /\ IsBlank(sxQuery))
        => (sxOutcome = "value" /\ sxResult = <<>>)

\* C17: getSuggestions returns an empty result and raises no error for every
\* partial input that is empty or shorter than the minimum query length of 2.
C17_SuggestionsShortEmpty ==
    (sxOp = "getSuggestions" /\ Len(sxQuery) < 2)
        => (sxOutcome = "value" /\ sxResult = <<>>)

\* The names (of the given types) stored under an index key that starts
\* with the normalized partial input
MatchingNames(index, normalized, types) ==
    UNION { { e.name : e \in { x \in Range(index[k].entries) : x.type \in types } } :
              k \in { k \in 1..Len(index) : startsWith(index[k].key, normalized) } }

\* C18: getSuggestions returns the first `limit` elements of the
\* alphabetically sorted list of all distinct matching names of the given
\* type: a matching name is left out only when `limit` alphabetically smaller
\* matching names exist.
C18_FirstOfSorted ==
    (sxOp = "getSuggestions" /\ sxOutcome = "value" /\ Len(SanitizedForm(sxQuery)) >= 1)
        => sxResult = slice(sortNames(MatchingNames(searchIndex,
                                          normalize(SanitizedForm(sxQuery)),
                                          sxOptions.types)),
                            sxOptions.limit)

\* C19: every name returned by getSuggestions contains the partial input,
\* compared case-insensitively, when the partial input (as sanitized) has
\* 2 characters or more.
C19_SuggestionContainsPartial ==
    (sxOp = "getSuggestions" /\ sxOutcome = "value" /\ Len(SanitizedForm(sxQuery)) >= 2)
        => \A i \in 1..Len(sxResult) :
               includes(toLowerCase(sxResult[i]), toLowerCase(SanitizedForm(sxQuery)))

\* C20: every result of search has a score of at least options.minScore,
\* whichever tier produced it.
C20_ScoreAtLeastMin ==
    (sxOp = "search" /\ sxOutcome = "value")
        => \A i \in 1..Len(sxResult) : ScoreGeq(sxResult[i].score, sxOptions.minScore)

----------------------------------------------------------------------------
(* Claims about the index of SearchService *)

\* C21: an admitted autocomplete called with a prefix, of 2 characters or
\* more, of the normalized form of an entity name of the indexed records
\* returns a list that contains the name of the entity.
C21_AutocompleteRoundTrip ==
    (sxOp = "autocomplete" /\ sxOutcome # "rateLimited" /\ searchIndex # <<>>
        /\ Len(sxQuery) >= 2) =>
        \A e \in EntitiesOf(rawData) :
            startsWith(normalize(e.name), sxQuery) =>
                /\ sxOutcome = "value"
                /\ \E i \in 1..Len(sxResult) : sxResult[i] = trim(e.name)

----------------------------------------------------------------------------
(* Claims about buildHierarchy *)

\* The towns of the records, in input order, whose region, district and
\* chiefdom are the given names
TownsOf(records, region, district, chiefdom) ==
    LET of == SelectSeq(records, LAMBDA r : /\ r.idregion = region
                                            /\ r.iddistrict = district
                                            /\ r.idchiefdom = chiefdom)
    IN [i \in 1..Len(of) |-> of[i].idtown]

NamesOf(nodes) == [i \in 1..Len(nodes) |-> nodes[i].name]

Distinct(names) == \A i, j \in 1..Len(names) : names[i] = names[j] => i = j

\* C28: buildHierarchy gives one province node per distinct region, one
\* district node per distinct (region, district) inside the province named by
\* the region, one chiefdom node per distinct (region, district, chiefdom)
\* inside that district, and under each chiefdom node the towns of exactly
\* the records that name it, in input order.
C28_TownUnderItsChiefdom ==
    lsQuery.op = "buildHierarchy" =>
        LET records == lsQuery.records
            tree == lsResult.v
        IN
        /\ Distinct(NamesOf(tree))
        /\ Range(NamesOf(tree)) = {r.idregion : r \in Range(records)}
        /\ \A p \in 1..Len(tree) :
            /\ Distinct(NamesOf(tree[p].districts))
            /\ Range(NamesOf(tree[p].districts))
                 = {r.iddistrict : r \in {x \in Range(records) : x.idregion = tree[p].name}}
            /\ \A d \in 1..Len(tree[p].districts) :
                LET district == tree[p].districts[d] IN
                /\ Distinct(NamesOf(district.chiefdoms))
                /\ Range(NamesOf(district.chiefdoms))
                     = {r.idchiefdom : r \in {x \in Range(records) :
                                                /\ x.idregion = tree[p].name
                                                /\ x.iddistrict = district.name}}
                /\ \A c \in 1..Len(district.chiefdoms) :
                      NamesOf(district.chiefdoms[c].towns)
                        = TownsOf(records, tree[p].name, district.name,
                                  district.chiefdoms[c].name)

----------------------------------------------------------------------------
(* Claims about the calls of LocationService *)

\* C22: whenever some region, district, chiefdom or town of the dataset has a
\* normalized name equal to the normalized query, findPlace returns a place
\* (not null) whose name normalizes to the query.
C22_FindPlaceReturnsNamed ==
    (/\ lsQuery.op = "findPlace"
     /\ lsOutcome = "value"
     /\ ExactMatches(rawData, normalize(SanitizedForm(lsQuery.a))) # <<>>) =>
        /\ lsResult.kind = "place"
        /\ normalize(lsResult.v.name) = normalize(SanitizedForm(lsQuery.a))

\* C23: once LocationService is initialized, a further initializeWithData
\* call, whatever its CSV, succeeds and leaves the records (of which the tree
\* and the index are functions) and the cache unchanged; an initialize of
\* SearchService or ValidationService over an index already built leaves the
\* index with the same keys and entries.
C23_InitializeIdempotent ==
    [][/\ (initialized /\ lsOp' = "initializeWithData") =>
            /\ lsOutcome' = "value"
            /\ UNCHANGED <<initialized, rawData, cache, cacheAccessTimes, cacheValues>>
       /\ (searchIndex # <<>> /\ sxOp' = "initialize") =>
            /\ searchIndex' = searchIndex
            /\ rawData' = rawData]_vars

\* A successful initialize after a search that found something in the index
\* of an earlier one, followed by an initializeWithData on the loaded service
C23_Witness ==
    /\ sxOp = "initialize" /\ sxOutcome = "value" /\ sxResult # <<>>
    /\ lsOp = "initializeWithData" /\ lsOutcome = "value" /\ cache # {}
    /\ vsInitialized

\* C24: a failed initializeWithData reports the error and leaves the service
\* uninitialized with no records and an empty cache; while the service is
\* uninitialized every accessor fails and changes nothing; and from every
\* uninitialized state an initializeWithData with valid data succeeds.
C24_FailedInitializationExposesNothing ==
    /\ [](~initialized =>
            /\ rawData = <<>> /\ cache = {}
            /\ ENABLED (InitializeWithData(CsvOf(SmallData))
                        /\ initialized' /\ lsOutcome' = "value"
                        /\ rawData' = SmallData))
    /\ [][~initialized =>
            /\ (lsOp' = "initializeWithData" /\ lsOutcome' = "error") =>
                  UNCHANGED <<initialized, rawData, cache, cacheAccessTimes, cacheValues>>
            /\ lsOp' = "accessor" =>
                  /\ lsOutcome' = "error"
                  /\ UNCHANGED <<initialized, rawData, cache, cacheAccessTimes, cacheValues>>
      ]_vars

\* An initializeWithData has just failed
C24_Witness ==
    /\ ~initialized /\ lsOp = "initializeWithData" /\ lsOutcome = "error"
    /\ rawData = <<>>

----------------------------------------------------------------------------
(* Claims about calculateSimilarity *)

\* C25: calculateSimilarity(s, s) = 1 for every s, and
\* calculateSimilarity(a, b) = calculateSimilarity(b, a) for all a and b, in
\* the equality branch, the containment branch and the edit-distance branch.
C25_SimilaritySymmetric ==
    /\ Len(csOut) >= 2 => csOut[2] = csOut[1]
    /\ Len(csOut) = 3 => csOut[3] = One

\* All three calls made on arguments scored by their edit distance
C25_Witness ==
    /\ Len(csOut) = 3
    /\ csOut[1] # One /\ csOut[1] # Contains
    /\ normalize(csIn[1]) # <<>> /\ normalize(csIn[2]) # <<>>

----------------------------------------------------------------------------
(* Claims about the window of the rate limiter *)

\* C26: after every checkRateLimit call at time now, allowed or denied, the
\* timestamps stored for the client of the call are all younger than
\* windowMs, also when autocomplete and search check the same client with
\* their different maxRequests.
C26_StoredWithinWindow ==
    [][\A c \in DOMAIN rateLimit' :
          rlLog'[c] # rlLog[c] =>
              \A i \in 1..Len(rateLimit'[c]) : rlNow' - rateLimit'[c][i] < windowMs]_vars

----------------------------------------------------------------------------
(* Claims about the entries of the SearchService index *)

\* The entry is under a key it may be under
UnderItsKey(key, e) ==
    \/ key = e.normalized /\ ~e.partialMatch
    \/ /\ e.partialMatch
       /\ \/ /\ Len(split(e.normalized)) > 1
             /\ Len(key) > 2
             /\ \E w \in 1..Len(split(e.normalized)) : split(e.normalized)[w] = key
          \/ key = getPhoneticKey(e.normalized) /\ key # e.normalized

\* C27: in the index built from any records, every entry under a key K is
\* the entry of K = normalized without partialMatch, or has partialMatch and
\* K is a word longer than 2 characters of its multi-word normalized name or
\* its phonetic key, different from the normalized name; and no key holds
\* two entries with the same name, type and normalized name.
C27_EntriesUnderTheirKeys ==
    \A k \in 1..Len(searchIndex) :
        /\ \A i \in 1..Len(searchIndex[k].entries) :
              UnderItsKey(searchIndex[k].key, searchIndex[k].entries[i])
        /\ \A i, j \in 1..Len(searchIndex[k].entries) :
              (/\ searchIndex[k].entries[i].name = searchIndex[k].entries[j].name
               /\ searchIndex[k].entries[i].type = searchIndex[k].entries[j].type
               /\ searchIndex[k].entries[i].normalized = searchIndex[k].entries[j].normalized)
                  => i = j

\* An index built from records that repeat a region, holding an entry under
\* one of its words and an entry under its phonetic key
C27_Witness ==
    /\ \E r1, r2 \in 1..Len(rawData) : r1 # r2 /\ rawData[r1].idregion = rawData[r2].idregion
    /\ \E k \in 1..Len(searchIndex) : \E i \in 1..Len(searchIndex[k].entries) :
          /\ searchIndex[k].entries[i].partialMatch
          /\ searchIndex[k].key # getPhoneticKey(searchIndex[k].entries[i].normalized)
    /\ \E k \in 1..Len(searchIndex) : \E i \in 1..Len(searchIndex[k].entries) :
          /\ searchIndex[k].entries[i].partialMatch
          /\ searchIndex[k].key = getPhoneticKey(searchIndex[k].entries[i].normalized)

----------------------------------------------------------------------------
(* Claims about the cache of LocationService *)

\* The service state with an empty cache
EmptyCache(st) ==
    [st EXCEPT !.cache = {}, !.times = <<>>, !.values = NoValues]

\* C29: every accessor call that returns returns the value it would return
\* from the same records with an empty cache.
C29_CacheTransparent ==
    [][(lsOp' = "accessor" /\ lsOutcome' = "value") =>
            lsResult' = answer(lsQuery', rawData, EmptyCache(CurrentValues), now').value]_vars

----------------------------------------------------------------------------
(* Claims about the order of admission and validation *)

\* C30: in autocomplete and search the admission check runs before the query
\* is validated: every admitted call, whether validation then rejects the
\* query, the result is empty or the call succeeds, leaves in the map what
\* checkRateLimit made of it, with the time of the call as last timestamp.
C30_AdmissionBeforeValidation ==
    [][(sxOp' \in {"search", "autocomplete"} /\ sxOutcome' # "rateLimited") =>
            /\ rateLimit' = checkRateLimit(rateLimit, "anonymous",
                                           IF sxOp' = "search" THEN SearchMax
                                           ELSE AutocompleteMax,
                                           windowMs, rlNow').requests
            /\ rateLimit'["anonymous"][Len(rateLimit'["anonymous"])] = rlNow'
            /\ Len(rateLimit'["anonymous"]) =
                  IF "anonymous" \in DOMAIN rateLimit
                  THEN Len(Recent(rateLimit["anonymous"], rlNow', windowMs)) + 1
                  ELSE 1]_vars

\* A search admitted and then rejected by validation, and recorded after an
\* earlier call in the same window
C30_Witness ==
    /\ sxOp = "search" /\ sxOutcome = "error"
    /\ "anonymous" \in DOMAIN rateLimit
    /\ Len(rateLimit["anonymous"]) >= 2
    /\ rateLimit["anonymous"][Len(rateLimit["anonymous"])] = rlNow

============================================================================
